---- MODULE Spec2Model ----
(***************************************************************************)
(* State-machine model of the symon2 edge gateway: the alarm engine        *)
(* (backend/src/alarmService.js) and the poller (server, unnamed/part_000).*)
(*                                                                         *)
(* Conventions                                                             *)
(*  - Times are milliseconds of the wall clock (Date.now()), counted from  *)
(*    an origin before process start so that every reading is > 0.  A      *)
(*    null timestamp is 0: the code tests timestamps by truthiness         *)
(*    (if (conn.lastOk), if (!conn.firstFail)), which treats null and 0    *)
(*    alike.                                                               *)
(*  - Metric values are tenths (pH 7.2 is 72, 27.5 C is 275); a missing or *)
(*    non-finite metric is the value undefined.                            *)
(*  - A Map entry that is absent is modelled by the default the code       *)
(*    substitutes for it when it reads the Map.                            *)
(***************************************************************************)
EXTENDS Integers, Sequences, FiniteSets, TLC

\* ------------------------------------------------------------------------
\* Bounds of the model
\* ------------------------------------------------------------------------
\* frames handed to the alarm engine in SpecAlarm
MaxFrames == 4
\* ticks launched in Spec (the first by start(), the others by the timer)
MaxTicks == 2

\* ------------------------------------------------------------------------
\* Program constants
\* ------------------------------------------------------------------------
\* alarmService.js:15  SLACK_WEBHOOK_URL of the modelled deployment ("" when unset)
WEBHOOK_URL == "https://hooks.slack.example/services/T/B/X"

\* alarmService.js:18-21
CONNECTIVITY_ALARM_MINUTES == 60
CONNECTIVITY_ALARM_MS == CONNECTIVITY_ALARM_MINUTES * 60000

\* unnamed/part_000:30
POLL_MS == 60000
\* unnamed/part_000:32, for a deployment with POLL_CONCURRENCY=2
CONCURRENCY == 2
\* unnamed/part_000:33
FAMILY_RELOAD_MS == 5 * 60000

\* alarmService.js:27-33 (tenths)
DEFAULT_CONFIG ==
  [ph |-> [low |-> 72, high |-> 82],
   temp |-> [low |-> 180, high |-> 275],
   connectivity |-> [qcAlarmsEnabled |-> TRUE]]

\* alarmService.js:36-64; the mutable low/high of the metric rules are the
\* variable ruleBounds
ALARM_RULES ==
  << [id |-> "ctrl_ph_out_of_range", family |-> "ctrl",
      type |-> "metric_threshold", metric |-> "ph"],
     [id |-> "ctrl_temp_out_of_range", family |-> "ctrl",
      type |-> "metric_threshold", metric |-> "temp1_C"],
     [id |-> "qc_fail", family |-> "any",
      type |-> "qc_fail", metric |-> "none"] >>

RuleIds == {ALARM_RULES[k].id : k \in 1..Len(ALARM_RULES)}

\* a metric that is missing from payload.s, or not a finite number
undefined == -1000000
\* the null event returned by updateRuleState
NoEvent == [kind |-> "none"]

\* the devices of the configuration files, in work-list order
\* (loadFamilies: family by family, device by device)
Devices ==
  << [family |-> "ctrl", tankId |-> "t1", ip |-> "10.0.0.1"],
     [family |-> "util", tankId |-> "t2", ip |-> "10.0.0.2"],
     [family |-> "ctrl", tankId |-> "t3", ip |-> "10.0.0.3"] >>
Tanks == {Devices[k].tankId : k \in 1..Len(Devices)}

VARIABLES
  families,          \* unnamed/part_000:794, flattened to (family, device) pairs
  pollTimer,         \* unnamed/part_000:822, TRUE while the interval is set
  nTicks,            \* number of tick() calls made so far
  ticks,             \* the tick() invocations, by ordinal
  lastReload,        \* unnamed/part_000:802
  liveCache,         \* unnamed/part_000:39
  cacheWrites,       \* history: frames passed to updateLiveCache
  mqttOut,           \* history: frames passed to publishTelemetry
  alarmFed,          \* history: frames passed to processTelemetryForAlarms
  dispatches,        \* history: the postToSlack calls, in order
  discarded,         \* history: events of the batches whose dispatch failed
  now,               \* the wall clock, Date.now()
  currentConfig,     \* alarmService.js:78
  ruleBounds,        \* low/high of the metric rules of ALARM_RULES
  settingsFile,      \* contents of data/alarm-settings.json
  connectivityState, \* alarmService.js:68
  alarmState,        \* alarmService.js:72
  pendingEvents,     \* alarmService.js:75
  evtSeq,            \* number of event objects created (object identity)
  frameLog,          \* history: per tank, the frames processed
  eventLog,          \* history: every event emitted, in order
  lastWrite,         \* loggingService.js:224, 0 for a key not in the Map
  queue,             \* loggingService.js:218
  writing,           \* loggingService.js:219
  waiting,           \* the stream whose drain event flushQueue awaits, or "none"
  streams,           \* loggingService.js:216, with the state of each stream
  writeLog,          \* history: the lines passed to stream.write, in order
  logCalls,          \* history: the logTelemetry calls, in order
  shut,              \* position of shutdownLogger
  spun,              \* history: shutdownLogger went round its loop in vain
  down,              \* position of shutdown() of the server
  setCalls,          \* history: the setAlarmThresholds calls, in order
  modbus,            \* modbusBlocks.js: the pool, its sockets, the request
  codec,             \* registerMap.js: the map, each _lastSet, the device's registers
  cmd                \* unnamed/part_002: opBuckets, the handlers of the messages
                     \* received, and the acks and register writes they made

pollVars == <<families, pollTimer, nTicks, ticks, lastReload, liveCache,
              cacheWrites, mqttOut, alarmFed, dispatches, discarded>>
alarmVars == <<now, currentConfig, ruleBounds, settingsFile, connectivityState,
               alarmState, pendingEvents, evtSeq, frameLog, eventLog>>

logVars == <<lastWrite, queue, writing, waiting, streams, writeLog, logCalls,
             shut, spun>>

vars == <<families, pollTimer, nTicks, ticks, lastReload, liveCache,
          cacheWrites, mqttOut, alarmFed, dispatches, discarded, now, currentConfig, ruleBounds, settingsFile,
          connectivityState, alarmState, pendingEvents, evtSeq, frameLog,
          eventLog, lastWrite, queue, writing, waiting, streams, writeLog,
          logCalls, shut, spun, down, setCalls, modbus, codec, cmd>>

\* ------------------------------------------------------------------------
\* Alarm engine (alarmService.js)
\* ------------------------------------------------------------------------

\* alarmService.js:349-360
applyConfigToRules(config) ==
  [r \in {"ctrl_ph_out_of_range", "ctrl_temp_out_of_range"} |->
     IF r = "ctrl_ph_out_of_range"
       THEN [low |-> config.ph.low, high |-> config.ph.high]
       ELSE [low |-> config.temp.low, high |-> config.temp.high]]

\* updateRuleState without the edge test: an event on every evaluation
updateRuleState_NoEdge(rule, tankId, family, active, t, astate, n) ==
  [alarm |-> [astate EXCEPT ![<<rule.id, tankId>>] =
                [active |-> active, lastChange |-> t]],
   evt |-> [kind |-> IF active THEN "ALARM" ELSE "RESOLVED",
            rule |-> rule.id, tankId |-> tankId, family |-> family,
            ts |-> t, n |-> n + 1]]

\* alarmService.js:362-386
updateRuleState(rule, tankId, family, active, t, astate, n) ==
  LET prev == astate[<<rule.id, tankId>>] IN
  IF active = prev.active
    THEN [alarm |-> astate, evt |-> NoEvent]
    ELSE [alarm |-> [astate EXCEPT ![<<rule.id, tankId>>] =
                       [active |-> active, lastChange |-> t]],
          evt |-> [kind |-> IF active THEN "ALARM" ELSE "RESOLVED",
                   rule |-> rule.id, tankId |-> tankId, family |-> family,
                   ts |-> t, n |-> n + 1]]

\* a connectivity update that restarts firstFail at every fail frame
connUpdate_ResetFirstFail(conn, qcStatus, t) ==
  IF qcStatus = "ok"
    THEN [lastOk |-> t, firstFail |-> 0, consecutiveFails |-> 0]
  ELSE IF qcStatus = "fail"
    THEN [lastOk |-> conn.lastOk, firstFail |-> t,
          consecutiveFails |-> conn.consecutiveFails + 1]
  ELSE conn

\* a connectivity update that keeps the fail counter over an ok frame
connUpdate_KeepCount(conn, qcStatus, t) ==
  IF qcStatus = "ok"
    THEN [lastOk |-> t, firstFail |-> 0,
          consecutiveFails |-> conn.consecutiveFails]
  ELSE IF qcStatus = "fail"
    THEN [lastOk |-> conn.lastOk,
          firstFail |-> IF conn.firstFail = 0 THEN t ELSE conn.firstFail,
          consecutiveFails |-> conn.consecutiveFails + 1]
  ELSE conn

\* alarmService.js:95-111: the connectivity state after the frame
connUpdate(conn, qcStatus, t) ==
  IF qcStatus = "ok"
    THEN [lastOk |-> t, firstFail |-> 0, consecutiveFails |-> 0]
  ELSE IF qcStatus = "fail"
    THEN [lastOk |-> conn.lastOk,
          firstFail |-> IF conn.firstFail = 0 THEN t ELSE conn.firstFail,
          consecutiveFails |-> conn.consecutiveFails + 1]
  ELSE conn

\* offline time measured from the start of the fail streak only
offlineMs_FromFirstFail(conn, t) ==
  IF conn.firstFail # 0 THEN t - conn.firstFail ELSE 0

\* alarmService.js:144-150
offlineMs(conn, t) ==
  IF conn.lastOk # 0 THEN t - conn.lastOk
  ELSE IF conn.firstFail # 0 THEN t - conn.firstFail
  ELSE 0

\* the rules with a value at a bound counted as out of range
ruleActive_Inclusive(rule, payload, family, conn, t, config, bounds) ==
  IF rule.family # "any" /\ rule.family # family THEN "skip"
  ELSE IF rule.type = "metric_threshold" THEN
    LET value == payload.s[rule.metric] IN
    IF value = undefined THEN "skip"
    ELSE IF value <= bounds[rule.id].low \/ value >= bounds[rule.id].high
      THEN "active" ELSE "inactive"
  ELSE
    IF ~config.connectivity.qcAlarmsEnabled THEN "skip"
    ELSE IF payload.qc.status = "fail"
      THEN (IF offlineMs(conn, t) >= CONNECTIVITY_ALARM_MS
              THEN "active" ELSE "inactive")
      ELSE "inactive"

\* the rules without the connectivity toggle
ruleActive_NoToggle(rule, payload, family, conn, t, config, bounds) ==
  IF rule.family # "any" /\ rule.family # family THEN "skip"
  ELSE IF rule.type = "metric_threshold" THEN
    LET value == payload.s[rule.metric] IN
    IF value = undefined THEN "skip"
    ELSE IF value < bounds[rule.id].low \/ value > bounds[rule.id].high
      THEN "active" ELSE "inactive"
  ELSE
    IF payload.qc.status = "fail"
      THEN (IF offlineMs(conn, t) >= CONNECTIVITY_ALARM_MS
              THEN "active" ELSE "inactive")
      ELSE "inactive"

\* alarmService.js:115-166: "skip" (continue), "active" or "inactive"
ruleActive(rule, payload, family, conn, t, config, bounds) ==
  IF rule.family # "any" /\ rule.family # family THEN "skip"
  ELSE IF rule.type = "metric_threshold" THEN
    LET value == payload.s[rule.metric] IN
    IF value = undefined THEN "skip"
    ELSE IF value < bounds[rule.id].low \/ value > bounds[rule.id].high
      THEN "active" ELSE "inactive"
  ELSE \* qc_fail
    IF ~config.connectivity.qcAlarmsEnabled THEN "skip"
    ELSE IF payload.qc.status = "fail"
      THEN (IF offlineMs(conn, t) >= CONNECTIVITY_ALARM_MS
              THEN "active" ELSE "inactive")
      ELSE "inactive"

\* alarmService.js:114-180: the loop over ALARM_RULES from rule k on.
\* st = [conn, alarm, pending, seq, emitted]
RECURSIVE evalRules(_, _, _, _, _, _, _)
evalRules(k, payload, family, t, config, bounds, st) ==
  IF k > Len(ALARM_RULES) THEN st
  ELSE
    LET rule == ALARM_RULES[k]
        a == ruleActive(rule, payload, family, st.conn[payload.tank_id], t,
                        config, bounds)
    IN IF a = "skip"
         THEN evalRules(k + 1, payload, family, t, config, bounds, st)
         ELSE
           LET u == updateRuleState(rule, payload.tank_id, family,
                                    a = "active", t, st.alarm, st.seq)
               st2 == IF u.evt = NoEvent
                        THEN [st EXCEPT !.alarm = u.alarm]
                        ELSE [st EXCEPT !.alarm = u.alarm,
                                        !.pending = Append(@, u.evt),
                                        !.emitted = Append(@, u.evt),
                                        !.seq = @ + 1]
           IN evalRules(k + 1, payload, family, t, config, bounds, st2)

\* alarmService.js:85-181
processTelemetryForAlarms(payload, family, t, config, bounds, st) ==
  IF WEBHOOK_URL = "" THEN st
  ELSE IF payload.tank_id = "" THEN st
  ELSE
    LET conn == connUpdate(st.conn[payload.tank_id], payload.qc.status, t)
        st1 == [st EXCEPT !.conn[payload.tank_id] = conn]
    IN evalRules(1, payload, family, t, config, bounds, st1)

\* the alarm-engine state as one record, and back
alarmSt == [conn |-> connectivityState, alarm |-> alarmState,
            pending |-> pendingEvents, seq |-> evtSeq, emitted |-> << >>]

\* ------------------------------------------------------------------------
\* Thresholds (alarmService.js:252-347).  A payload block is
\* [present, low, high]; a value that Number() does not make finite is
\* undefined; payload.connectivity.qcAlarmsEnabled is "true", "false" or
\* "missing" (absent or not a boolean).
\* ------------------------------------------------------------------------

\* validateThresholdBlock without the test of low against high
validateThresholdBlock_NoOrder(block, fallback) ==
  LET src == IF block.present THEN block
             ELSE [present |-> TRUE, low |-> fallback.low, high |-> fallback.high]
  IN IF src.low = undefined \/ src.high = undefined
       THEN [ok |-> FALSE, low |-> 0, high |-> 0]
     ELSE [ok |-> TRUE, low |-> src.low, high |-> src.high]

\* alarmService.js:311-324
validateThresholdBlock(block, fallback) ==
  LET src == IF block.present THEN block
             ELSE [present |-> TRUE, low |-> fallback.low, high |-> fallback.high]
  IN IF src.low = undefined \/ src.high = undefined
       THEN [ok |-> FALSE, low |-> 0, high |-> 0]
     ELSE IF src.low >= src.high
       THEN [ok |-> FALSE, low |-> 0, high |-> 0]
     ELSE [ok |-> TRUE, low |-> src.low, high |-> src.high]

\* alarmService.js:326-347
normalizeConfig(obj) ==
  LET ph == validateThresholdBlock(obj.ph, DEFAULT_CONFIG.ph)
      temp == validateThresholdBlock(obj.temp, DEFAULT_CONFIG.temp)
      qcAlarmsEnabled == IF obj.connectivity = "missing" THEN TRUE
                         ELSE obj.connectivity = "true"
  IN [ok |-> ph.ok /\ temp.ok,
      config |-> [ph |-> [low |-> ph.low, high |-> ph.high],
                  temp |-> [low |-> temp.low, high |-> temp.high],
                  connectivity |-> [qcAlarmsEnabled |-> qcAlarmsEnabled]]]

\* alarmService.js:252-259
getAlarmThresholds == currentConfig

\* setAlarmThresholds that validates and persists but leaves the rules alone
setAlarmThresholds_NoApply(payload) ==
  LET next == normalizeConfig(payload) IN
  IF next.ok
    THEN /\ currentConfig' = next.config
         /\ UNCHANGED ruleBounds
         /\ setCalls' = Append(setCalls, [payload |-> payload,
                            before |-> [config |-> currentConfig,
                                        bounds |-> ruleBounds,
                                        writing |-> \E i \in 1..Len(setCalls) :
                                          setCalls[i].status = "writing"],
                            status |-> "writing", config |-> next.config])
    ELSE /\ UNCHANGED <<currentConfig, ruleBounds>>
         /\ setCalls' = Append(setCalls, [payload |-> payload,
                            before |-> [config |-> currentConfig,
                                        bounds |-> ruleBounds,
                                        writing |-> \E i \in 1..Len(setCalls) :
                                          setCalls[i].status = "writing"],
                            status |-> "rejected", config |-> currentConfig])

\* alarmService.js:261-266, up to the await of mkdir.  A payload that
\* normalizeConfig rejects makes the call throw before anything is
\* assigned; otherwise memory and rules are updated and the call suspends
\* in the write of the settings file.
setAlarmThresholds(payload) ==
  LET next == normalizeConfig(payload) IN
  IF next.ok
    THEN /\ currentConfig' = next.config
         /\ ruleBounds' = applyConfigToRules(next.config)
         /\ setCalls' = Append(setCalls, [payload |-> payload,
                            before |-> [config |-> currentConfig,
                                        bounds |-> ruleBounds,
                                        writing |-> \E i \in 1..Len(setCalls) :
                                          setCalls[i].status = "writing"],
                            status |-> "writing", config |-> next.config])
    ELSE /\ UNCHANGED <<currentConfig, ruleBounds>>
         /\ setCalls' = Append(setCalls, [payload |-> payload,
                            before |-> [config |-> currentConfig,
                                        bounds |-> ruleBounds,
                                        writing |-> \E i \in 1..Len(setCalls) :
                                          setCalls[i].status = "writing"],
                            status |-> "rejected", config |-> currentConfig])

\* alarmService.js:268-279: mkdir and writeFile of call i settle.
\* written = FALSE: one of them failed and the call throws "Failed to
\* persist alarm settings"; otherwise it returns getAlarmThresholds().
persistSettings(i, written) ==
  /\ settingsFile' = IF written
                       THEN [exists |-> TRUE, json |-> setCalls[i].config]
                       ELSE settingsFile
  /\ setCalls' = [setCalls EXCEPT ![i].status =
                    IF written THEN "ok" ELSE "failed"]

\* payloads of the Settings page that keep the default bounds and set the
\* connectivity toggle
TogglePayloads ==
  {[ph |-> [present |-> TRUE, low |-> DEFAULT_CONFIG.ph.low,
            high |-> DEFAULT_CONFIG.ph.high],
    temp |-> [present |-> TRUE, low |-> DEFAULT_CONFIG.temp.low,
              high |-> DEFAULT_CONFIG.temp.high],
    connectivity |-> c] : c \in {"true", "false"}}

\* ph of an ok frame (tenths): below ph.low, inside the bounds
PhValues == {70, 75}

\* ------------------------------------------------------------------------
\* Poller (unnamed/part_000)
\* ------------------------------------------------------------------------
NoValues == [ph |-> undefined, temp1_C |-> undefined]
NoEntry == [present |-> FALSE, family |-> "none", ip |-> "none", ts_utc |-> 0,
            qc |-> "none", s |-> NoValues]

\* unnamed/part_000:723-732
okPayload(dev, values, t) ==
  [ts_utc |-> t, tank_id |-> dev.tankId, s |-> values,
   qc |-> [status |-> "ok", error |-> "none"]]

\* unnamed/part_000:751-759
failPayload(dev, err, t) ==
  [ts_utc |-> t, tank_id |-> dev.tankId, s |-> NoValues,
   qc |-> [status |-> "fail", error |-> err]]

\* the frame of a poll of dev that ended qc, with ph as decoded value
framePayload(dev, qc, ph, t) ==
  IF qc = "ok" THEN okPayload(dev, [ph |-> ph, temp1_C |-> 250], t)
  ELSE failPayload(dev, "connect timeout", t)

\* a Live Cache update that assigns the values onto the existing entry
updateLiveCache_Merge(cache, tankId, family, ip, payload) ==
  [cache EXCEPT ![tankId] =
     [present |-> TRUE, family |-> family, ip |-> ip,
      ts_utc |-> payload.ts_utc, qc |-> payload.qc.status,
      s |-> [key \in DOMAIN payload.s |->
               IF payload.s[key] = undefined THEN cache[tankId].s[key]
               ELSE payload.s[key]]]]

\* unnamed/part_000:41-49
updateLiveCache(cache, tankId, family, ip, payload) ==
  [cache EXCEPT ![tankId] =
     [present |-> TRUE, family |-> family, ip |-> ip,
      ts_utc |-> payload.ts_utc, qc |-> payload.qc.status, s |-> payload.s]]

\* The effects of one pollDevice call act on the record
\* W = [cache, cw, mqtt, fed, st, thrown]: Live Cache, the three call
\* histories, the alarm-engine state, and whether an exception leaves
\* pollDevice.  fid identifies the frame in the histories.

\* backend/src/mqttPublisher.js:30-45: client.publish reports errors to its
\* callback; the logTelemetry call is wrapped in try/catch and belongs to
\* the Log Writer
publishTelemetry(W, fid) == [W EXCEPT !.mqtt = @ \cup {fid}]

feedAlarms(W, fid, payload, family, t, config, bounds) ==
  [W EXCEPT !.fed = @ \cup {fid},
            !.st = processTelemetryForAlarms(payload, family, t, config,
                                             bounds, @)]

\* a try block whose last statement throws after the ok frame went out: the
\* catch block then builds and delivers a fail frame for the same poll
pollDeviceTry_ThenFail(fid, dev, values, t, config, bounds, W) ==
  LET payload == okPayload(dev, values, t)
      W1 == [W EXCEPT !.cache = updateLiveCache(@, dev.tankId, dev.family,
                                                dev.ip, payload),
                      !.cw = @ \cup {fid}]
      W2 == feedAlarms(publishTelemetry(W1, fid), fid, payload, dev.family,
                       t, config, bounds)
      ffid == [fid EXCEPT !.qc = "fail", !.error = "thrown"]
      fail == failPayload(dev, "thrown", t)
      W3 == [W2 EXCEPT !.cache = updateLiveCache(@, dev.tankId, dev.family,
                                                 dev.ip, fail),
                       !.cw = @ \cup {ffid}]
  IN feedAlarms(publishTelemetry(W3, ffid), ffid, fail, dev.family, t,
                config, bounds)

\* unnamed/part_000:719-737: the read and the decode succeeded
pollDeviceTry(fid, dev, values, t, config, bounds, W) ==
  LET payload == okPayload(dev, values, t)
      W1 == [W EXCEPT !.cache = updateLiveCache(@, dev.tankId, dev.family,
                                                dev.ip, payload),
                      !.cw = @ \cup {fid}]
      W2 == publishTelemetry(W1, fid)
  IN feedAlarms(W2, fid, payload, dev.family, t, config, bounds)

\* the catch block of the older server (backend/src/server.js:491-509): the
\* fail frame is published and fed to the alarms, Live Cache is left alone
pollDeviceCatch_NoCache(fid, dev, err, t, config, bounds, W) ==
  LET payload == failPayload(dev, err, t)
      W2 == publishTelemetry(W, fid)
  IN feedAlarms(W2, fid, payload, dev.family, t, config, bounds)

\* a pollDevice without the catch block: the error leaves the worker
pollDeviceCatch_Rethrow(fid, dev, err, t, config, bounds, W) ==
  [W EXCEPT !.thrown = TRUE]

\* unnamed/part_000:750-768: readBlocksForDevice rejected or
\* decodePointsFromBlocks threw
pollDeviceCatch(fid, dev, err, t, config, bounds, W) ==
  LET payload == failPayload(dev, err, t)
      W1 == [W EXCEPT !.cache = updateLiveCache(@, dev.tankId, dev.family,
                                                dev.ip, payload),
                      !.cw = @ \cup {fid}]
      W2 == publishTelemetry(W1, fid)
  IN feedAlarms(W2, fid, payload, dev.family, t, config, bounds)

\* A tick() invocation.  pc: idle (not called yet), polling (awaiting
\* pollAllFamilies), flushing (awaiting postToSlack inside flushAlarmBatch),
\* done (resolved), rejected.  wk[w]: worker w of the pool, suspended in
\* jitter (the setTimeout of line 783) or reading (readBlocksForDevice of
\* line 720), or done.  i is the shared index of line 775.  drawn and polled
\* count, per work item, the times its index was drawn and pollDevice was
\* called; out is how the read of each item ended; flushes counts the flushAlarmBatch calls; flushEarly and fedLate
\* record a flush that began with a worker still running and a frame fed
\* after the flush began; left is the length of pendingEvents when
\* flushAlarmBatch returned; d is the tick's entry in dispatches.
IdleTick ==
  [pc |-> "idle", work |-> << >>, i |-> 0, wk |-> << >>, drawn |-> << >>,
   polled |-> << >>, out |-> << >>, flushes |-> 0, flushEarly |-> FALSE, fedLate |-> FALSE,
   left |-> 0, d |-> 0, reload |-> "none"]

Min(a, b) == IF a < b THEN a ELSE b

\* a pool with one worker per work item
poolSize_Uncapped(work) == Len(work)

\* unnamed/part_000:776
poolSize(work) == Min(CONCURRENCY, Len(work))

\* an index that is read but not advanced
drawIndex_Stale(i) == [idx |-> i, next |-> i]

\* unnamed/part_000:780  const idx = i++
drawIndex(i) == [idx |-> i, next |-> i + 1]

\* unnamed/part_000:779-785: worker w runs from the top of its loop to its
\* next await (or to its end)
workerLoop(tk, w) ==
  LET dr == drawIndex(tk.i) IN
  IF dr.idx >= Len(tk.work)
    THEN [tk EXCEPT !.i = dr.next, !.wk[w] = [pc |-> "done", idx |-> 0]]
  ELSE IF dr.idx % 3 = 0
    THEN [tk EXCEPT !.i = dr.next,
                    !.drawn[dr.idx + 1] = @ + 1,
                    !.wk[w] = [pc |-> "jitter", idx |-> dr.idx]]
  ELSE [tk EXCEPT !.i = dr.next,
                  !.drawn[dr.idx + 1] = @ + 1,
                  !.polled[dr.idx + 1] = @ + 1,
                  !.wk[w] = [pc |-> "reading", idx |-> dr.idx]]

\* unnamed/part_000:788: Array.from({length: N}, worker) calls the workers
\* one after the other, each up to its first await
RECURSIVE spawnWorkers(_, _)
spawnWorkers(tk, w) ==
  IF w > Len(tk.wk) THEN tk ELSE spawnWorkers(workerLoop(tk, w), w + 1)

\* unnamed/part_000:771-789, up to the await of line 788
pollAllFamilies(tk, fams) ==
  IF Len(fams) = 0 THEN [tk EXCEPT !.pc = "polling", !.work = fams]
  ELSE spawnWorkers(
         [tk EXCEPT !.pc = "polling", !.work = fams, !.i = 0,
                    !.wk = [w \in 1..poolSize(fams) |-> [pc |-> "none", idx |-> 0]],
                    !.drawn = [x \in 1..Len(fams) |-> 0],
                    !.polled = [x \in 1..Len(fams) |-> 0],
                    !.out = [x \in 1..Len(fams) |-> "none"]],
         1)

\* a tick that does not await its workers
workersDrained_NoAwait(tk) == TRUE

\* unnamed/part_000:788, 818: Promise.all has resolved
workersDrained(tk) == \A w \in 1..Len(tk.wk) : tk.wk[w].pc = "done"

\* the events of pendingEvents that the message of a flush contains
\* (alarmService.js:191-237: every event is an ALARM or a RESOLVED line of
\* the block of its tank)
messageEvents(pending) ==
  {pending[x].n : x \in {y \in 1..Len(pending) :
                           pending[y].kind \in {"ALARM", "RESOLVED"}}}

\* alarmService.js:187-240, up to the await of postToSlack.  Returns the
\* tick, the dispatch log and pendingEvents.  A dispatch is logged with the
\* events of its message and with lost, the events of the batches that had
\* failed when it began.
flushAlarmBatch(tk, pending, log, lost) ==
  LET early == \E w \in 1..Len(tk.wk) : tk.wk[w].pc # "done"
      tk1 == [tk EXCEPT !.flushes = @ + 1, !.flushEarly = @ \/ early]
      kept == IF WEBHOOK_URL = "" \/ Len(pending) = 0 THEN pending ELSE << >>
  IN IF WEBHOOK_URL = "" \/ Len(pending) = 0 \/ messageEvents(pending) = {}
       THEN [tk |-> [tk1 EXCEPT !.pc = "done", !.left = Len(kept)],
             log |-> log,
             pending |-> kept]
       ELSE [tk |-> [tk1 EXCEPT !.pc = "flushing", !.d = Len(log) + 1],
             log |-> Append(log, [events |-> messageEvents(pending),
                                  result |-> "pending",
                                  lost |-> lost]),
             pending |-> pending]

\* unnamed/part_000:818-819: once the workers have drained the tick calls
\* flushAlarmBatch
afterWorkers(tk, pending, log, lost) ==
  IF tk.pc = "polling" /\ workersDrained(tk)
    THEN flushAlarmBatch(tk, pending, log, lost)
    ELSE [tk |-> tk, log |-> log, pending |-> pending]

\* a flush that clears the batch only when the dispatch succeeded
afterPost_KeepOnFailure(pending, ok) == IF ok THEN << >> ELSE pending

\* alarmService.js:239-245: pendingEvents after try/catch/finally
afterPost(pending, ok) == << >>

\* ------------------------------------------------------------------------
\* SpecAlarm: frames handed to the alarm engine one after the other
\* ------------------------------------------------------------------------

\* time between two frames: 20 and 65 minutes
FrameDeltas == {20 * 60000, 65 * 60000}

RECURSIVE SumLen(_, _)
SumLen(f, S) ==
  IF S = {} THEN 0
  ELSE LET x == CHOOSE y \in S : TRUE IN Len(f[x]) + SumLen(f, S \ {x})

\* one frame of device k reaches processTelemetryForAlarms, d ms after the
\* previous one (the history keeps, as ph, the value the ph rule read:
\* undefined when the rule is not of the device's family)
Frame(k, qc, ph, d) ==
  /\ SumLen(frameLog, Tanks) < MaxFrames
  /\ now' = now + d
  /\ LET dev == Devices[k]
         st == processTelemetryForAlarms(framePayload(dev, qc, ph, now'), dev.family,
                                         now', currentConfig, ruleBounds, alarmSt)
     IN /\ connectivityState' = st.conn
        /\ alarmState' = st.alarm
        /\ pendingEvents' = st.pending
        /\ evtSeq' = st.seq
        /\ eventLog' = eventLog \o st.emitted
        /\ frameLog' = [frameLog EXCEPT ![dev.tankId] =
             Append(@, [ts |-> now', qc |-> qc,
                        ph |-> IF dev.family = "ctrl"
                                 THEN framePayload(dev, qc, ph, now').s.ph
                                 ELSE undefined,
                        en |-> currentConfig.connectivity.qcAlarmsEnabled,
                        pre |-> alarmState[<<"qc_fail", dev.tankId>>].active,
                        evs |-> st.emitted])]
  /\ UNCHANGED <<currentConfig, ruleBounds, settingsFile>>
  /\ UNCHANGED pollVars
  /\ UNCHANGED <<logVars, down, setCalls, modbus, codec, cmd>>

\* JSON.parse of a settings file written by setAlarmThresholds: both
\* blocks are objects and the toggle is a boolean
parsedSettings(config) ==
  [ph |-> [present |-> TRUE, low |-> config.ph.low, high |-> config.ph.high],
   temp |-> [present |-> TRUE, low |-> config.temp.low,
             high |-> config.temp.high],
   connectivity |-> IF config.connectivity.qcAlarmsEnabled
                      THEN "true" ELSE "false"]

\* alarmService.js:286-301: a settings file that is absent gives the
\* defaults, one that is present is normalized
loadConfigFromDisk(file) ==
  IF ~file.exists THEN DEFAULT_CONFIG
  ELSE LET n == normalizeConfig(parsedSettings(file.json)) IN
       IF n.ok THEN n.config ELSE DEFAULT_CONFIG

\* settings files a previous run can have left behind: none, or the
\* default bounds with either value of the connectivity toggle
SettingsFiles ==
  {[exists |-> FALSE, json |-> DEFAULT_CONFIG]}
  \cup {[exists |-> TRUE, json |-> normalizeConfig(p).config] :
          p \in TogglePayloads}

\* the first reading of the clock
T0 == 60000

\* module load (alarmService.js:66-79)
AlarmInit ==
  /\ now = T0
  /\ settingsFile \in SettingsFiles
  /\ currentConfig = loadConfigFromDisk(settingsFile)
  /\ ruleBounds = applyConfigToRules(currentConfig)
  /\ connectivityState =
       [t \in Tanks |-> [lastOk |-> 0, firstFail |-> 0, consecutiveFails |-> 0]]
  /\ alarmState =
       [key \in RuleIds \X Tanks |-> [active |-> FALSE, lastChange |-> 0]]
  /\ pendingEvents = << >>
  /\ evtSeq = 0
  /\ frameLog = [t \in Tanks |-> << >>]
  /\ eventLog = << >>

\* unnamed/part_000:39, 649-652, 792-822: the module before start() runs
\* (n: the number of tick() calls the history ticks has room for)
pollInitOf(n, fams) ==
  /\ families = fams
  /\ pollTimer = FALSE
  /\ nTicks = 0
  /\ ticks = [k \in 1..n |-> IdleTick]
  /\ lastReload = T0
  /\ liveCache = [t \in Tanks |-> NoEntry]
  /\ cacheWrites = {}
  /\ mqttOut = {}
  /\ alarmFed = {}
  /\ dispatches = << >>
  /\ discarded = {}

\* the module with the families of the three config files of Devices
pollInit(n) == pollInitOf(n, Devices)

PollInit == pollInit(MaxTicks)

\* unnamed/part_000:28
SITE_ID == "dev01"

\* loggingService.js:376: the key of the rate limiter
rateKey(fam, site, tank) == fam \o ":" \o site \o ":" \o tank

\* the rate keys of the devices of the configuration
LogKeys == {rateKey(Devices[k].family, SITE_ID, Devices[k].tankId) :
              k \in 1..Len(Devices)}

\* loggingService.js:216-224: the logger after module load
LogInit ==
  /\ lastWrite = [k \in LogKeys |-> 0]
  /\ queue = << >>
  /\ writing = FALSE
  /\ waiting = "none"
  /\ streams = [k \in LogKeys |->
                 [open |-> FALSE, ended |-> FALSE, failed |-> FALSE]]
  /\ writeLog = << >>
  /\ logCalls = << >>
  /\ shut = "none"
  /\ spun = FALSE

\* unnamed/part_000:848-860: shutdown() has not been called
DownInit == down = "running"

\* alarmService.js:261: setAlarmThresholds has not been called
SetInit == setCalls = << >>

\* a request of the transport that has not started
IdleReq == [pc |-> "idle", client |-> 0, blk |-> 0, attempt |-> 0,
            live |-> FALSE, err |-> "none", connects |-> 0, fc |-> 0]

\* modbusBlocks.js:53: the pool after module load.  pool is the socket
\* registered under the key of the device (0: no entry); sockets are the
\* sockets created so far; attempts and waits are the history of the
\* calls of fn and of wait made by retry.
ModbusInit ==
  modbus = [pool |-> 0, sockets |-> << >>, req |-> IdleReq, nReq |-> 0,
            attempts |-> << >>, waits |-> << >>, other |-> 0,
            timers |-> {}]

\* ------------------------------------------------------------------------
\* Register map codec (unnamed/part_005, registerMap.js)

\* unnamed/part_005:142-143: Number(rawValue) is NaN; a value apart from
\* every number of the model
NaN == -999999
\* the JS number Infinity, above every other number of the model (the
\* largest integer the checker computes with)
Infinity == 2147483647
\* the outcome of a Buffer read or write the runtime rejects with a
\* RangeError, apart from every number of the model
RangeError == -1000001


\* the register map of the model: two blocks; the point "sp" whose
\* definition varies, a read-only point in the same block, a point in the
\* other block and a point that lies in no block
mapBlocks ==
  <<[name |-> "b1", start |-> 100, len |-> 4],
    [name |-> "b2", start |-> 200, len |-> 1]>>
PointNames == {"sp", "ro", "q", "far"}
PointTypes == {"u16", "i16", "u32", "i32", "float32", "bool"}
IntegerTypes == {"u16", "i16", "u32", "i32"}
noBounds == << >>
fixedDef(a, isRo) ==
  [type |-> "u16", addr |-> a, ro |-> isRo, scale |-> undefined,
   offset |-> undefined, safe_bounds |-> noBounds, deadband |-> undefined]
PointDefs ==
  {[type |-> t, addr |-> 102, ro |-> FALSE, scale |-> sc, offset |-> off,
    safe_bounds |-> sb, deadband |-> db] :
      t \in PointTypes, sc \in {undefined, 10}, off \in {undefined, 5},
      sb \in {noBounds, <<0, 100>>}, db \in {undefined, 2}}
registerMap(def, bo, wo) ==
  [byte_order |-> bo, word_order |-> wo, blocks |-> mapBlocks,
   points |-> [n \in PointNames |->
                 CASE n = "sp" -> def
                   [] n = "ro" -> fixedDef(100, TRUE)
                   [] n = "q" -> fixedDef(200, FALSE)
                   [] OTHER -> fixedDef(300, FALSE)]]

\* unnamed/part_005:44-53; 0 stands for the throw of the default branch
wordsForType(t) ==
  CASE t \in {"u16", "i16"} -> 1
    [] t \in {"u32", "i32", "float32"} -> 2
    [] OTHER -> 0

\* Buffer.slice(a, b): the bytes a .. b-1 that exist
slice(buf, a, b) == SubSeq(buf, a + 1, Min(b, Len(buf)))
reverse(b) == [i \in 1..Len(b) |-> b[Len(b) + 1 - i]]

\* unnamed/part_005:54-56
assemble32(hiBuf, loBuf, wordOrder) ==
  IF wordOrder = "CDAB" THEN loBuf \o hiBuf ELSE hiBuf \o loBuf

\* unnamed/part_005:57: Buffer.readUInt16LE/BE at a byte offset
readU16(buf, offset, byteOrder) ==
  IF offset + 2 > Len(buf) THEN RangeError
  ELSE IF byteOrder = "LE" THEN buf[offset + 2] * 256 + buf[offset + 1]
       ELSE buf[offset + 1] * 256 + buf[offset + 2]

\* unnamed/part_005:58
readI16(buf, offset, byteOrder) ==
  LET u == readU16(buf, offset, byteOrder) IN
  IF u = RangeError THEN RangeError
  ELSE IF u >= 32768 THEN u - 65536 ELSE u

\* the four bytes of b4 most significant first
msbFirst(b4, byteOrder) == IF byteOrder = "LE" THEN reverse(b4) ELSE b4

\* unnamed/part_005:59-62. A value of 2^31 or more is beyond the integers
\* the checker computes with; no buffer of the model holds one.
readU32FromWords(hi, lo, byteOrder, wordOrder) ==
  LET b4 == assemble32(hi, lo, wordOrder)
      m == msbFirst(b4, byteOrder) IN
  IF Len(b4) < 4 THEN RangeError
  ELSE m[1] * 16777216 + m[2] * 65536 + m[3] * 256 + m[4]

\* unnamed/part_005:63-66
readI32FromWords(hi, lo, byteOrder, wordOrder) ==
  LET b4 == assemble32(hi, lo, wordOrder)
      m == msbFirst(b4, byteOrder) IN
  IF Len(b4) < 4 THEN RangeError
  ELSE (IF m[1] >= 128 THEN m[1] - 256 ELSE m[1]) * 16777216
       + m[2] * 65536 + m[3] * 256 + m[4]

\* IEEE-754 single precision, most significant byte first, of the float
\* values the model uses
f32Bytes ==
  [v \in {0, 7, 50, 100, 101, Infinity} |->
     CASE v = 0 -> <<0, 0, 0, 0>>
       [] v = 7 -> <<64, 224, 0, 0>>
       [] v = 50 -> <<66, 72, 0, 0>>
       [] v = 100 -> <<66, 200, 0, 0>>
       [] v = 101 -> <<66, 202, 0, 0>>
       [] OTHER -> <<127, 128, 0, 0>>]

\* unnamed/part_005:67-70: Buffer.readFloatLE/BE; a bit pattern that is none
\* of f32Bytes does not arise in the model and reads as NaN here
readF32FromWords(hi, lo, byteOrder, wordOrder) ==
  LET b4 == assemble32(hi, lo, wordOrder)
      m == msbFirst(b4, byteOrder) IN
  IF Len(b4) < 4 THEN RangeError
  ELSE IF \E v \in DOMAIN f32Bytes : f32Bytes[v] = m
       THEN CHOOSE v \in DOMAIN f32Bytes : f32Bytes[v] = m
       ELSE NaN

\* unnamed/part_005:94-120: the body of the loop of decodePointsFromBlocks
\* for a point whose block and buffer were found
decodeValue(def, buf, byteIndex, byteOrder, wordOrder) ==
  LET hi == slice(buf, byteIndex, byteIndex + 2)
      lo == slice(buf, byteIndex + 2, byteIndex + 4)
      v0 == CASE def.type = "u16" -> readU16(buf, byteIndex, byteOrder)
              [] def.type = "i16" -> readI16(buf, byteIndex, byteOrder)
              [] def.type = "u32" ->
                   readU32FromWords(hi, lo, byteOrder, wordOrder)
              [] def.type = "i32" ->
                   readI32FromWords(hi, lo, byteOrder, wordOrder)
              [] OTHER -> readF32FromWords(hi, lo, byteOrder, wordOrder)
      v1 == IF def.scale # undefined /\ v0 \notin {Infinity, NaN}
            THEN v0 * def.scale ELSE v0
      v2 == IF def.offset # undefined /\ v1 \notin {Infinity, NaN}
            THEN v1 + def.offset ELSE v1
  IN IF v0 = RangeError THEN undefined ELSE v2

\* unnamed/part_005:83-92: the value of one point
decodePoint(map, def, blockBuffers) ==
  LET words == wordsForType(def.type)
      inBlk == {i \in 1..Len(map.blocks) :
                  /\ def.addr >= map.blocks[i].start
                  /\ def.addr + words - 1
                       <= map.blocks[i].start + map.blocks[i].len - 1}
  IN
  IF inBlk = {} THEN undefined
  ELSE LET blk == map.blocks[CHOOSE i \in inBlk : \A j \in inBlk : i <= j]
       IN IF blk.name \notin DOMAIN blockBuffers THEN undefined
          ELSE decodeValue(def, blockBuffers[blk.name],
                           (def.addr - blk.start) * 2,
                           map.byte_order, map.word_order)

\* unnamed/part_005:78-124. wordsForType is called before the try of a
\* point (line 83), so its throw leaves decodePointsFromBlocks.
decodePointsFromBlocks(map, blockBuffers) ==
  IF \E n \in DOMAIN map.points : wordsForType(map.points[n].type) = 0
  THEN [threw |-> TRUE, out |-> [n \in DOMAIN map.points |-> undefined]]
  ELSE [threw |-> FALSE,
        out |-> [n \in DOMAIN map.points |->
                   decodePoint(map, map.points[n], blockBuffers)]]

\* unnamed/part_005:127-128, 172-174: Buffer.write* of an integer; the
\* bytes in the byte order asked for, or RangeError for a value the type
\* cannot hold. The upper limit 2^32-1 of u32 is above every integer of the
\* model but Infinity.
writeBytes(type, v, byteOrder) ==
  LET n == IF type \in {"u16", "i16"} THEN 2 ELSE 4
      inRange ==
        CASE type = "u16" -> v >= 0 /\ v <= 65535
          [] type = "i16" -> v >= -32768 /\ v <= 32767
          [] type = "u32" -> v >= 0 /\ v # Infinity
          [] type = "i32" -> v # Infinity
          [] OTHER -> TRUE
      m == IF type = "float32" THEN f32Bytes[v]
           ELSE IF n = 2 THEN <<(v \div 256) % 256, v % 256>>
           ELSE <<(v \div 16777216) % 256, (v \div 65536) % 256,
                  (v \div 256) % 256, v % 256>>
  IN IF ~inRange THEN <<RangeError>>
     ELSE IF byteOrder = "LE" THEN reverse(m) ELSE m

\* unnamed/part_005:129-132
splitWords(b4, wordOrder) ==
  LET hi == slice(b4, 0, 2)
      lo == slice(b4, 2, 4)
  IN IF wordOrder = "CDAB" THEN <<lo, hi>> ELSE <<hi, lo>>

\* Math.abs(a - b) < d, with Infinity - Infinity = NaN and every
\* comparison with NaN false; written without a - b, which two integers of
\* opposite sign can take beyond the integers the checker computes with
within(a, b, d) ==
  IF a = Infinity \/ b = Infinity THEN FALSE
  ELSE IF a >= b THEN a - d < b ELSE b - d < a

\* a planWrite call that threw, def._lastSet being ls afterwards
planThrew(err, ls) ==
  [outcome |-> "throw", error |-> err, fc |-> 0, start |-> 0,
   words |-> << >>, value |-> undefined, reason |-> "none", lastSet |-> ls]

\* unnamed/part_005:138-180. lastSet is def._lastSet before the call; the
\* result carries def._lastSet after it. rawValue is a number, so
\* Number(rawValue) is rawValue.
planWrite(map, pointName, rawValue, allowClamp, lastSet) ==
  IF pointName \notin DOMAIN map.points THEN planThrew("unknown_point", lastSet)
  ELSE
  LET def == map.points[pointName]
      bounded == def.safe_bounds # noBounds
      lo == IF bounded THEN def.safe_bounds[1] ELSE 0
      hi == IF bounded THEN def.safe_bounds[2] ELSE 0
      out == bounded /\ (rawValue < lo \/ rawValue > hi)
      v == IF out THEN Min(hi, IF rawValue < lo THEN lo ELSE rawValue)
           ELSE rawValue
      reason ==
        IF def.deadband # undefined /\ lastSet # undefined
           /\ within(v, lastSet, def.deadband)
        THEN "deadband_skip"
        ELSE IF out THEN "clamped" ELSE "ok"
      b == writeBytes(def.type, v, map.byte_order)
  IN
  IF def.ro THEN planThrew("read_only", lastSet)
  ELSE IF rawValue = NaN THEN planThrew("nan", lastSet)
  ELSE IF out /\ ~allowClamp THEN planThrew("out_of_bounds", lastSet)
  ELSE IF wordsForType(def.type) = 0 THEN planThrew("unsupported_type", v)
  ELSE IF b = <<RangeError>> THEN planThrew("range", v)
  ELSE [outcome |-> "plan", error |-> "none",
        fc |-> IF wordsForType(def.type) = 1 THEN 6 ELSE 16,
        start |-> def.addr,
        words |-> IF wordsForType(def.type) = 1 THEN <<b>>
                  ELSE splitWords(b, map.word_order),
        value |-> v, reason |-> reason, lastSet |-> v]

\* the registers of the device of the model, by address
RegAddrs == {100, 101, 102, 103, 200}
regs0 == [a \in RegAddrs |-> IF a = 100 THEN 258 ELSE IF a = 200 THEN 772 ELSE 0]

noCall == [name |-> "none", raw |-> undefined, allowClamp |-> TRUE,
           res |-> planThrew("none", undefined), written |-> FALSE]
noDecode == [kind |-> "none", threw |-> FALSE,
             out |-> [n \in PointNames |-> undefined]]

\* the codec of a register map just loaded: no point has a _lastSet
codecOf(map) ==
  [map |-> map, lastSet |-> [n \in PointNames |-> undefined],
   last |-> noCall, regs |-> regs0, decoded |-> noDecode]

\* unnamed/part_005:9-14: loadRegisterMap of a map whose point "sp" is any
\* of defs, in any byte and word order of orders
codecInit(defs, orders) ==
  \E def \in defs, o \in orders : codec = codecOf(registerMap(def, o[1], o[2]))

plainDef ==
  [type |-> "u16", addr |-> 102, ro |-> FALSE, scale |-> undefined,
   offset |-> undefined, safe_bounds |-> noBounds, deadband |-> undefined]
CodecInit == codecInit({plainDef}, {<<"BE", "ABCD">>})

\* ------------------------------------------------------------------------
\* Command subscriber (unnamed/part_002)
\* ------------------------------------------------------------------------

\* messages received in SpecCmd
MaxMsgs == 2

\* unnamed/part_002:8
ttlSec == 30

\* cfg.maxOpsPerMinute of attachCmdSubscriber (unnamed/part_002:50), set so
\* that the second command of a minute is refused
maxOpsPerMinute == 1

\* cfg.tankMap: the tanks whose address is known
tankMap == {"t1"}

\* topics of received messages, split at "/": the topic of the
\* subscription symbrosia/+/+/+/cmd for a known and for an unknown tank,
\* and topics with one more level, which a cfg.topicPattern other than the
\* default lets through
CmdTopics ==
  {<<"symbrosia", SITE_ID, "t1", "ctrl-t1", "cmd">>,
   <<"symbrosia", SITE_ID, "t1", "ctrl-t1", "v2", "cmd">>,
   <<"symbrosia", SITE_ID, "tx", "ctrl-tx", "v2", "cmd">>}

\* unnamed/part_002:76
deviceKeyOf(parts) == <<parts[2], parts[3], parts[4]>>
DeviceKeys == {deviceKeyOf(t) : t \in CmdTopics}

\* the ops of a command: a write to the point sp, a write to the read-only
\* point ro
CmdOps == {[point |-> "sp", value |-> 7], [point |-> "ro", value |-> 7]}
OpLists ==
  {<< >>} \cup {<<a>> : a \in CmdOps} \cup {<<a, b>> : a, b \in CmdOps}

\* payloads: text that is no JSON, the JSON text null, and objects with
\* ops and with ts_utc absent (age = undefined) or age ms in the past
CmdBodies ==
  {[json |-> "bad", age |-> undefined, ops |-> << >>],
   [json |-> "null", age |-> undefined, ops |-> << >>],
   [json |-> "object", age |-> 40000, ops |-> <<[point |-> "sp", value |-> 7]>>],
   [json |-> "object", age |-> 10000, ops |-> <<[point |-> "sp", value |-> 7]>>]}
  \cup {[json |-> "object", age |-> undefined, ops |-> l] : l \in OpLists}

\* unnamed/part_002:136-141, with ts_utc = t - age
validTtl(body, t) ==
  IF body.json = "null" \/ body.age = undefined THEN TRUE
  ELSE body.age <= ttlSec * 1000

NoBucket == [present |-> FALSE, tokens |-> 0, lastRefill |-> 0]

\* unnamed/part_002:16-29: the bucket of the key after the call, and
\* whether the call allows the command
tokenBucketAllow(bucket, t, maxPerMin) ==
  LET b0 == IF bucket.present THEN bucket
            ELSE [present |-> TRUE, tokens |-> maxPerMin, lastRefill |-> t]
      elapsed == t - b0.lastRefill
      b1 == IF elapsed >= 60000
              THEN [b0 EXCEPT !.tokens =
                           Min(maxPerMin,
                               b0.tokens + (elapsed * maxPerMin) \div 60000),
                         !.lastRefill = t]
              ELSE b0
  IN IF b1.tokens <= 0 THEN [allow |-> FALSE, bucket |-> b1]
     ELSE [allow |-> TRUE, bucket |-> [b1 EXCEPT !.tokens = @ - 1]]

\* unnamed/part_002:143-147: the ack published for message m
publishAck(acks, m, parts, err, results) ==
  Append(acks, [m |-> m,
                topic |-> SubSeq(parts, 1, Len(parts) - 1) \o <<"cmd", "ack">>,
                error |-> err, results |-> results])

\* unnamed/part_002:14: opBuckets is empty and no message has arrived
CmdInit == cmd = [opBuckets |-> [k \in DeviceKeys |-> NoBucket],
                  msgs |-> << >>, acks |-> << >>, writes |-> << >>]

Init == AlarmInit /\ PollInit /\ LogInit /\ DownInit /\ SetInit /\ ModbusInit
        /\ CodecInit /\ CmdInit

\* unnamed/part_000:668-708: the family sets loadFamilies can return: all
\* devices, a device removed from a config file, a family without enabled
\* devices, no family at all
LoadableFamilies ==
  {Devices, SubSeq(Devices, 1, 2), SubSeq(Devices, 2, 2), << >>}

\* a reload that keeps the families read before loadFamilies threw
reloadFamilies_Partial(fams, loaded, loadOk) ==
  IF loadOk THEN loaded ELSE SubSeq(loaded, 1, Len(loaded) - 1)

\* unnamed/part_000:808-816: loadFamilies builds its result in a local
\* array; when it throws the assignment of line 809 does not happen
reloadFamilies(fams, loaded, loadOk) ==
  IF loadOk THEN loaded ELSE fams

\* unnamed/part_000:804-820, up to the first await that suspends.  t is the
\* reading of the clock, loaded what loadFamilies returns when the reload is
\* due; loadOk = FALSE: it throws and the previous families are kept.
tick(k, t, loaded, loadOk) ==
  LET due == t - lastReload >= FAMILY_RELOAD_MS
      fams == IF due THEN reloadFamilies(families, loaded, loadOk)
              ELSE families
      tk == [ticks[k] EXCEPT !.reload = IF ~due THEN "none"
                                        ELSE IF loadOk THEN "ok" ELSE "failed"]
      r == afterWorkers(pollAllFamilies(tk, fams), pendingEvents,
                        dispatches, discarded)
  IN /\ nTicks' = k
     /\ lastReload' = IF due THEN t ELSE lastReload
     /\ families' = fams
     /\ ticks' = [ticks EXCEPT ![k] = r.tk]
     /\ dispatches' = r.log
     /\ pendingEvents' = r.pending

\* unnamed/part_000:824-845: setInterval, then the first tick
start ==
  /\ ~pollTimer
  /\ nTicks = 0
  /\ pollTimer' = TRUE
  /\ \E loaded \in LoadableFamilies, loadOk \in BOOLEAN :
       tick(1, now, loaded, loadOk)
  /\ UNCHANGED <<liveCache, cacheWrites, mqttOut, alarmFed, discarded, now,
                 currentConfig, ruleBounds, settingsFile, connectivityState,
                 alarmState, evtSeq, frameLog, eventLog>>
  /\ UNCHANGED <<logVars, down, setCalls, modbus, codec, cmd>>

\* unnamed/part_000:826-828: the interval fires, POLL_MS after the previous
\* firing (or after start)
TimerFire ==
  /\ pollTimer
  /\ nTicks < Len(ticks)
  /\ now' = now + POLL_MS
  /\ \E loaded \in LoadableFamilies, loadOk \in BOOLEAN :
       tick(nTicks + 1, now', loaded, loadOk)
  /\ UNCHANGED <<pollTimer, liveCache, cacheWrites, mqttOut, alarmFed,
                 discarded, currentConfig, ruleBounds, settingsFile,
                 connectivityState, alarmState, evtSeq, frameLog, eventLog>>
  /\ UNCHANGED <<logVars, down, setCalls, modbus, codec, cmd>>

\* unnamed/part_000:783: the jitter timeout of worker w of tick k expires and
\* the worker calls pollDevice, which suspends in readBlocksForDevice
JitterDone(k, w) ==
  /\ k \in 1..nTicks
  /\ w \in 1..Len(ticks[k].wk)
  /\ ticks[k].wk[w].pc = "jitter"
  /\ ticks' = [ticks EXCEPT ![k].wk[w].pc = "reading",
                            ![k].polled[ticks[k].wk[w].idx + 1] = @ + 1]
  /\ UNCHANGED <<families, pollTimer, nTicks, lastReload, liveCache,
                 cacheWrites, mqttOut, alarmFed, dispatches, discarded>>
  /\ UNCHANGED alarmVars
  /\ UNCHANGED <<logVars, down, setCalls, modbus, codec, cmd>>

\* what a poll can end with: decoded values, or the message of the error
\* that readBlocksForDevice or decodePointsFromBlocks raised
PollValues == {[ph |-> 70, temp1_C |-> 250]}
PollErrors == {"connect timeout"}
PollOutcomes ==
  {[ok |-> TRUE, values |-> v, err |-> "none"] : v \in PollValues}
  \cup {[ok |-> FALSE, values |-> NoValues, err |-> e] : e \in PollErrors}

\* unnamed/part_000:720-768, 779-785, 818-819: the read of worker w of tick
\* k settles with outcome o; pollDevice finishes, the worker goes round its
\* loop, and the tick goes on to its flush when this was the last worker
ReadDone(k, w, o) ==
  /\ k \in 1..nTicks
  /\ w \in 1..Len(ticks[k].wk)
  /\ ticks[k].wk[w].pc = "reading"
  /\ LET tk == ticks[k]
         idx == tk.wk[w].idx
         dev == tk.work[idx + 1]
         fid == [tick |-> k, idx |-> idx,
                 qc |-> IF o.ok THEN "ok" ELSE "fail", error |-> o.err]
         W0 == [cache |-> liveCache, cw |-> cacheWrites, mqtt |-> mqttOut,
                fed |-> alarmFed, st |-> alarmSt, thrown |-> FALSE]
         W1 == IF o.ok
                 THEN pollDeviceTry(fid, dev, o.values, now, currentConfig,
                                    ruleBounds, W0)
                 ELSE pollDeviceCatch(fid, dev, o.err, now, currentConfig,
                                      ruleBounds, W0)
         tkA == [tk EXCEPT !.out[idx + 1] = fid.qc,
                           !.fedLate = @ \/ (tk.flushes > 0 /\ fid \in W1.fed)]
         tkB == IF W1.thrown
                  THEN [tkA EXCEPT !.wk[w] = [pc |-> "done", idx |-> 0],
                                   !.pc = "rejected"]
                  ELSE workerLoop(tkA, w)
         r == afterWorkers(tkB, W1.st.pending, dispatches, discarded)
     IN /\ ticks' = [ticks EXCEPT ![k] = r.tk]
        /\ dispatches' = r.log
        /\ pendingEvents' = r.pending
        /\ liveCache' = W1.cache
        /\ cacheWrites' = W1.cw
        /\ mqttOut' = W1.mqtt
        /\ alarmFed' = W1.fed
        /\ connectivityState' = W1.st.conn
        /\ alarmState' = W1.st.alarm
        /\ evtSeq' = W1.st.seq
  /\ UNCHANGED <<families, pollTimer, nTicks, lastReload, discarded, now,
                 currentConfig, ruleBounds, settingsFile, frameLog, eventLog>>
  /\ UNCHANGED <<logVars, down, setCalls, modbus, codec, cmd>>

\* alarmService.js:239-246: postToSlack of tick k's flush settles (ok or
\* not); finally clears the batch, flushAlarmBatch returns, tick() resolves
PostDone(k, ok) ==
  /\ k \in 1..nTicks
  /\ ticks[k].pc = "flushing"
  /\ pendingEvents' = afterPost(pendingEvents, ok)
  /\ ticks' = [ticks EXCEPT ![k].pc = "done",
                            ![k].left = Len(pendingEvents')]
  /\ dispatches' = [dispatches EXCEPT ![ticks[k].d].result =
                      IF ok THEN "sent" ELSE "failed"]
  /\ discarded' = IF ok THEN discarded
                  ELSE discarded \cup dispatches[ticks[k].d].events
  /\ UNCHANGED <<families, pollTimer, nTicks, lastReload, liveCache,
                 cacheWrites, mqttOut, alarmFed, now, currentConfig,
                 ruleBounds, settingsFile, connectivityState, alarmState,
                 evtSeq, frameLog, eventLog>>
  /\ UNCHANGED <<logVars, down, setCalls, modbus, codec, cmd>>

PollNext ==
  \/ start
  \/ TimerFire
  \/ \E k \in 1..MaxTicks, w \in 1..Len(Devices) : JitterDone(k, w)
  \/ \E k \in 1..MaxTicks, w \in 1..Len(Devices), o \in PollOutcomes :
       ReadDone(k, w, o)
  \/ \E k \in 1..MaxTicks, ok \in BOOLEAN : PostDone(k, ok)


AlarmNext ==
  \E k \in 1..2, qc \in {"ok", "fail"}, ph \in PhValues, d \in FrameDeltas :
    Frame(k, qc, ph, d)

SpecAlarm == Init /\ [][AlarmNext]_vars

\* the poller, started with no settings file on disk
PollerInit == Init /\ ~settingsFile.exists
Spec == PollerInit /\ [][PollNext]_vars

\* ------------------------------------------------------------------------
\* Claims about the alarm engine (SpecAlarm)
\* ------------------------------------------------------------------------
KeyEvents(r, t) == SelectSeq(eventLog, LAMBDA e : e.rule = r /\ e.tankId = t)
CountKind(s, kind) == Len(SelectSeq(s, LAMBDA e : e.kind = kind))
QcEvents(f) == SelectSeq(f.evs, LAMBDA e : e.rule = "qc_fail")
EmitsQc(f, kind) ==
  \E i \in 1..Len(f.evs) : f.evs[i].rule = "qc_fail" /\ f.evs[i].kind = kind

\* C2: for every (ruleId, tankId) the emitted events alternate ALARM,
\* RESOLVED, ALARM, ... starting with ALARM, and the number of ALARM events
\* is the number of RESOLVED events plus 1 if the stored state is active and
\* plus 0 otherwise.
C2_AlarmEdge ==
  \A r \in RuleIds, t \in Tanks :
    LET s == KeyEvents(r, t) IN
    /\ \A i \in 1..Len(s) :
         s[i].kind = IF i % 2 = 1 THEN "ALARM" ELSE "RESOLVED"
    /\ CountKind(s, "ALARM") =
         CountKind(s, "RESOLVED")
           + (IF alarmState[<<r, t>>].active THEN 1 ELSE 0)

\* a key that has gone ALARM, RESOLVED, ALARM and is active
C2_Witness ==
  \E r \in RuleIds, t \in Tanks :
    Len(KeyEvents(r, t)) >= 3 /\ alarmState[<<r, t>>].active

\* the first frame of the fail streak that frame j of log L belongs to
StreakStart(L, j) ==
  CHOOSE i \in 1..j :
    /\ \A m \in i..j : L[m].qc = "fail"
    /\ (i = 1 \/ L[i - 1].qc # "fail")

\* the time the offline duration of frame j is measured from: the last ok
\* frame before it, or the first frame of the tank if none was ok
OfflineSince(L, j) ==
  IF \E i \in 1..(j - 1) : L[i].qc = "ok"
    THEN L[CHOOSE i \in 1..(j - 1) :
             L[i].qc = "ok" /\ \A m \in (i + 1)..(j - 1) : L[m].qc # "ok"].ts
    ELSE L[1].ts

\* C3 as stated: with connectivity alarms enabled, a frame emits the
\* qc_fail ALARM iff the device has been in the fail state continuously for
\* at least CONNECTIVITY_ALARM_MS (measured from the start of the current
\* fail streak) and no qc_fail alarm is already active.
C3_StreakThreshold ==
  \A t \in Tanks : \A j \in 1..Len(frameLog[t]) :
    LET L == frameLog[t] IN
    L[j].en =>
      (EmitsQc(L[j], "ALARM") <=>
         /\ L[j].qc = "fail"
         /\ L[j].ts - L[StreakStart(L, j)].ts >= CONNECTIVITY_ALARM_MS
         /\ ~L[j].pre)

\* C3 amended: with a webhook configured and connectivity alarms enabled, a
\* frame emits the qc_fail ALARM iff it is a fail frame, the time since the
\* tank's last ok frame (or, when it never had one, since its first fail
\* frame) is at least CONNECTIVITY_ALARM_MS, and no qc_fail alarm is
\* already active.
C3_SinceLastOk ==
  \A t \in Tanks : \A j \in 1..Len(frameLog[t]) :
    LET L == frameLog[t] IN
    L[j].en =>
      (EmitsQc(L[j], "ALARM") <=>
         /\ L[j].qc = "fail"
         /\ L[j].ts - OfflineSince(L, j) >= CONNECTIVITY_ALARM_MS
         /\ ~L[j].pre)

\* a qc_fail ALARM on a fail frame whose streak is shorter than the
\* threshold: the time is counted from the last ok frame
C3_Witness ==
  \E t \in Tanks : \E j \in 1..Len(frameLog[t]) :
    LET L == frameLog[t] IN
    /\ L[j].en /\ EmitsQc(L[j], "ALARM")
    /\ StreakStart(L, j) > 1
    /\ L[j].ts - L[StreakStart(L, j)].ts < CONNECTIVITY_ALARM_MS

\* the frames of tank t up to and including its first ok frame
NeverOkPrefix(L) ==
  IF \E i \in 1..Len(L) : L[i].qc = "ok"
    THEN CHOOSE i \in 1..Len(L) :
           L[i].qc = "ok" /\ \A m \in 1..(i - 1) : L[m].qc = "fail"
    ELSE Len(L)

\* C4: for a device never polled successfully, with connectivity alarms
\* enabled: the first fail frame records firstFail and emits no event; the
\* first later fail frame at or after firstFail + CONNECTIVITY_ALARM_MS
\* emits exactly one qc_fail ALARM; further fail frames emit nothing; the
\* next ok frame emits exactly one RESOLVED.
C4_NeverOkDevice ==
  \A t \in Tanks :
    LET L == frameLog[t]
        n == NeverOkPrefix(L)
        due(j) == L[j].ts >= L[1].ts + CONNECTIVITY_ALARM_MS
        firstDue(j) == due(j) /\ \A i \in 2..(j - 1) : ~due(i)
    IN (Len(L) >= 1 /\ L[1].qc = "fail" /\ \A j \in 1..n : L[j].en) =>
         /\ L[1].evs = << >>
         /\ (n = Len(L) /\ L[n].qc = "fail") =>
              connectivityState[t].firstFail = L[1].ts
         /\ \A j \in 2..n :
              /\ (L[j].qc = "fail" /\ firstDue(j)) =>
                   (Len(QcEvents(L[j])) = 1 /\ EmitsQc(L[j], "ALARM"))
              /\ (L[j].qc = "fail" /\ ~firstDue(j)) => L[j].evs = << >>
              /\ (L[j].qc = "ok" /\ \E i \in 2..(j - 1) : due(i)) =>
                   (Len(QcEvents(L[j])) = 1 /\ EmitsQc(L[j], "RESOLVED"))

\* fail, fail past the threshold (ALARM), fail (nothing), ok (RESOLVED)
C4_Witness ==
  \E t \in Tanks :
    LET L == frameLog[t] IN
    /\ Len(L) = 4
    /\ L[1].qc = "fail" /\ L[2].qc = "fail" /\ L[3].qc = "fail"
    /\ L[4].qc = "ok"
    /\ \A j \in 1..4 : L[j].en
    /\ EmitsQc(L[2], "ALARM") /\ L[3].evs = << >>
    /\ EmitsQc(L[4], "RESOLVED")

\* ------------------------------------------------------------------------
\* Claims about the poller (Spec)
\* ------------------------------------------------------------------------
InProgress(k) == ticks[k].pc \in {"polling", "flushing"}
Ended(k) == ticks[k].pc \in {"flushing", "done"}
InFlight(tk) == Cardinality({w \in 1..Len(tk.wk) : tk.wk[w].pc = "reading"})
RECURSIVE SumSeq(_)
SumSeq(s) == IF s = << >> THEN 0 ELSE Head(s) + SumSeq(Tail(s))
FailFid(k, idx) ==
  [tick |-> k, idx |-> idx, qc |-> "fail", error |-> "connect timeout"]

\* C1: ticks never overlap: when the previous tick (its workers and its
\* alarm flush) is still running as the timer fires, the new tick is
\* skipped, so at any time at most one tick is in progress.
C1_NoOverlap ==
  Cardinality({k \in 1..MaxTicks : InProgress(k)}) <= 1

C6_TickCompletes ==
  \A k \in 1..MaxTicks :
    LET tk == ticks[k] IN
    /\ tk.pc # "rejected"
    /\ tk.pc = "polling" =>
         \E w \in 1..Len(tk.wk) : tk.wk[w].pc \in {"jitter", "reading"}
    /\ Ended(k) =>
         /\ \A x \in 1..Len(tk.work) : tk.out[x] # "none"
         /\ tk.flushes = 1

\* a tick all of whose devices failed has completed
C6_Witness ==
  \E k \in 1..MaxTicks :
    /\ ticks[k].pc = "done"
    /\ Len(ticks[k].work) = Len(Devices)
    /\ \A x \in 1..Len(ticks[k].work) : ticks[k].out[x] = "fail"
    /\ ticks[k].flushes = 1

\* C7: within one tick every work item is drawn from the shared index at
\* most once and polled at most once, no two workers hold the same item,
\* and when the workers have drained every item has been drawn exactly once
\* and polled exactly once.
C7_ExactlyOnce ==
  \A k \in 1..MaxTicks :
    LET tk == ticks[k] IN
    /\ \A x \in 1..Len(tk.work) : tk.drawn[x] <= 1 /\ tk.polled[x] <= 1
    /\ \A v, w \in 1..Len(tk.wk) :
         (v # w /\ tk.wk[v].pc # "done" /\ tk.wk[w].pc # "done") =>
           tk.wk[v].idx # tk.wk[w].idx
    /\ Ended(k) =>
         \A x \in 1..Len(tk.work) : tk.drawn[x] = 1 /\ tk.polled[x] = 1

\* a drained tick with more work items than workers, while a worker of the
\* other tick waits in its jitter with another one reading
C7_Witness ==
  \E k, j \in 1..MaxTicks :
    /\ ticks[k].pc = "done"
    /\ Len(ticks[k].work) > Len(ticks[k].wk)
    /\ \A x \in 1..Len(ticks[k].work) :
         ticks[k].drawn[x] = 1 /\ ticks[k].polled[x] = 1
    /\ \E v, w \in 1..Len(ticks[j].wk) :
         ticks[j].wk[v].pc = "jitter" /\ ticks[j].wk[w].pc = "reading"

C9_FlushOnceAfterWorkers ==
  \A k \in 1..MaxTicks :
    LET tk == ticks[k] IN
    /\ tk.flushes <= 1
    /\ Ended(k) => tk.flushes = 1
    /\ tk.flushes = 1 => \A w \in 1..Len(tk.wk) : tk.wk[w].pc = "done"
    /\ ~tk.flushEarly
    /\ ~tk.fedLate

\* a tick whose flush found events and dispatched them after its last
\* worker finished
C9_Witness ==
  \E k \in 1..MaxTicks :
    /\ ticks[k].pc = "done"
    /\ ticks[k].flushes = 1
    /\ ticks[k].d > 0
    /\ \A x \in 1..Len(ticks[k].work) :
         [tick |-> k, idx |-> x - 1, qc |-> "ok", error |-> "none"] \in alarmFed

MIN_INTERVAL_MS == 30000

\* logTelemetry calls in SpecLog
MaxLogCalls == 4

\* time between two logTelemetry calls: 10 s and 30 s
LogDeltas == {10000, 30000}

\* loggingService.js:321-332
getStream(tab, key) ==
  IF tab[key].open THEN tab
  ELSE [tab EXCEPT ![key] = [open |-> TRUE, ended |-> FALSE,
                            failed |-> FALSE]]

\* loggingService.js:338-345: the loop of flushQueue from its top.  The
\* lines are shifted and written one after the other until a write returns
\* false, which suspends the loop on the drain event of that stream
\* (stop is the position of that line; stop = 0: every write returns true
\* and the loop ends with writing = false).
consume(q, log, stop) ==
  LET m == IF stop = 0 THEN Len(q) ELSE stop IN
  [queue |-> SubSeq(q, m + 1, Len(q)),
   writeLog |-> log \o SubSeq(q, 1, m),
   writing |-> stop # 0,
   waiting |-> IF stop # 0 THEN q[stop].stream ELSE "none"]

\* loggingService.js:329, 341: a stream that reported an error is destroyed
\* and stays in the table; stream.write on it returns false. stop is a
\* position at which the loop over q can suspend: any, while no line of a
\* failed stream comes before it.
canStopAt(q, tab, stop) ==
  \A i \in 1..Len(q) :
    tab[q[i].stream].failed => (stop # 0 /\ stop <= i)

\* loggingService.js:334-347, up to the first await
flushQueue(L, stop) ==
  IF L.writing THEN L ELSE consume(L.queue, L.writeLog, stop)

\* a rate limiter that forgets the time of the last write
rateLimited_Never(ts, last) == FALSE

\* loggingService.js:377-379
rateLimited(ts, last) == ts - last < MIN_INTERVAL_MS

\* loggingService.js:370-400: logTelemetry for a frame of device k with
\* qc.status qc, d ms after the previous call.  The function reads
\* family, site_id, tank_id, ts_utc and s of the payload.
logTelemetry(k, qc, d, stop) ==
  /\ shut = "none"
  /\ Len(logCalls) < MaxLogCalls
  /\ now' = now + d
  /\ writing \/ canStopAt(<<[stream |-> rateKey(Devices[k].family, SITE_ID,
                                                Devices[k].tankId)]>>,
                          streams, stop)
  /\ LET dev == Devices[k]
         key == rateKey(dev.family, SITE_ID, dev.tankId)
         n == Len(logCalls) + 1
         accepted == ~rateLimited(now', lastWrite[key])
         L == flushQueue([queue |-> Append(queue, [stream |-> key, n |-> n]),
                          writeLog |-> writeLog, writing |-> writing,
                          waiting |-> waiting], stop)
     IN /\ logCalls' = Append(logCalls,
             [family |-> dev.family, site |-> SITE_ID, tank |-> dev.tankId,
              ts |-> now', accepted |-> accepted, qc |-> qc])
        /\ IF accepted
             THEN /\ streams' = getStream(streams, key)
                  /\ lastWrite' = [lastWrite EXCEPT ![key] = now']
                  /\ queue' = L.queue
                  /\ writeLog' = L.writeLog
                  /\ writing' = L.writing
                  /\ waiting' = L.waiting
             ELSE UNCHANGED <<streams, lastWrite, queue, writeLog, writing,
                              waiting>>
  /\ UNCHANGED <<shut, spun, down, setCalls, modbus, codec, cmd, currentConfig,
                 ruleBounds, settingsFile,
                 connectivityState, alarmState, pendingEvents, evtSeq,
                 frameLog, eventLog>>
  /\ UNCHANGED pollVars

\* logTelemetry for an ok frame
LogTelemetry(k, d, stop) == logTelemetry(k, "ok", d, stop)

\* loggingService.js:342-343: the stream that flushQueue waits for emits
\* drain and the loop goes on.  An event of the event loop: it is delivered
\* only when no microtask is runnable, that is, not while shutdownLogger
\* goes round its loop.
Drain(stop) ==
  /\ waiting # "none"
  /\ ~streams[waiting].failed
  /\ shut # "loop"
  /\ stop \in 0..Len(queue)
  /\ canStopAt(queue, streams, stop)
  /\ LET L == consume(queue, writeLog, stop) IN
       /\ queue' = L.queue
       /\ writeLog' = L.writeLog
       /\ writing' = L.writing
       /\ waiting' = L.waiting
  /\ UNCHANGED <<lastWrite, streams, logCalls, shut, spun, down, setCalls, modbus, codec, cmd>>
  /\ UNCHANGED <<pollVars, alarmVars>>

\* loggingService.js:413-421: end() is called on every stream of the table;
\* with no stream in the table Promise.all resolves at once
endStreams ==
  IF \E k \in LogKeys : streams[k].open THEN shut' = "ending"
  ELSE shut' = "returned"

\* loggingService.js:406-412: shutdownLogger is called.  The queue is
\* non-empty only while flushQueue is suspended (writing), and then
\* flushQueue() returns at once and the await resumes in a microtask.
ShutdownLogger ==
  /\ shut = "none"
  /\ IF Len(queue) = 0 THEN endStreams ELSE shut' = "loop"
  /\ UNCHANGED <<lastWrite, queue, writing, waiting, streams, writeLog,
                 logCalls, spun, down, setCalls, modbus, codec, cmd>>
  /\ UNCHANGED <<pollVars, alarmVars>>

\* loggingService.js:408-410: the microtask that resumes
\* while (queue.length) { await flushQueue(); }
ShutdownResume ==
  /\ shut = "loop"
  /\ IF Len(queue) = 0 THEN endStreams /\ UNCHANGED spun
     ELSE /\ writing
          /\ shut' = "loop"
          /\ spun' = TRUE
  /\ UNCHANGED <<lastWrite, queue, writing, waiting, streams, writeLog,
                 logCalls, down, setCalls, modbus, codec, cmd>>
  /\ UNCHANGED <<pollVars, alarmVars>>

\* loggingService.js:415-421: the end callback of stream k; after the last
\* one Promise.all resolves, streams.clear() runs and shutdownLogger returns
StreamFinished(k) ==
  /\ shut = "ending"
  /\ streams[k].open /\ ~streams[k].ended
  /\ LET ended == [streams EXCEPT ![k].ended = TRUE] IN
       IF \A j \in LogKeys : ended[j].open => ended[j].ended
         THEN /\ streams' = [j \in LogKeys |-> [ended[j] EXCEPT !.open = FALSE]]
              /\ shut' = "returned"
         ELSE /\ streams' = ended
              /\ shut' = "ending"
  /\ UNCHANGED <<lastWrite, queue, writing, waiting, writeLog, logCalls,
                 spun, down, setCalls, modbus, codec, cmd>>
  /\ UNCHANGED <<pollVars, alarmVars>>

LogNext ==
  \/ \E k \in 1..Len(Devices), d \in LogDeltas, stop \in 0..1 :
       LogTelemetry(k, d, stop)
  \/ \E stop \in 0..MaxLogCalls : Drain(stop)
  \/ ShutdownLogger
  \/ ShutdownResume
  \/ \E k \in LogKeys : StreamFinished(k)

\* the Log Writer alone
SpecLog == PollerInit /\ [][LogNext]_vars

\* SpecLog with every enabled step eventually taken
SpecLogFair == SpecLog /\ WF_vars(LogNext)

\* loggingService.js:329: the file stream k reports an error (the disk is
\* full, the file cannot be opened). The handler logs it; the stream, which
\* Node destroys on an error, emits no drain event afterwards.
StreamError(k) ==
  /\ streams[k].open /\ ~streams[k].failed
  /\ streams' = [streams EXCEPT ![k].failed = TRUE]
  /\ UNCHANGED <<lastWrite, queue, writing, waiting, writeLog, logCalls,
                 shut, spun, down, setCalls, modbus, codec, cmd>>
  /\ UNCHANGED <<pollVars, alarmVars>>

\* the Log Writer with failing streams and no shutdown
LogErrNext ==
  \/ \E k \in 1..Len(Devices), d \in LogDeltas, stop \in 0..1 :
       LogTelemetry(k, d, stop)
  \/ \E stop \in 0..MaxLogCalls : Drain(stop)
  \/ \E k \in LogKeys : StreamError(k)
SpecLogErr == PollerInit /\ [][LogErrNext]_vars

\* SpecLogErr with every enabled step eventually taken
SpecLogErrFair == SpecLogErr /\ WF_vars(LogErrNext)

\* ------------------------------------------------------------------------
\* Claims on the Log Writer
\* ------------------------------------------------------------------------

callKey(c) == rateKey(c.family, c.site, c.tank)

\* the accepted calls of key before call j
AcceptedBefore(j, key) ==
  {i \in 1..(j - 1) : logCalls[i].accepted /\ callKey(logCalls[i]) = key}

Max(S) == CHOOSE x \in S : \A y \in S : y <= x

\* time of the last accepted call of key among the first j - 1 calls (0: none)
LastAccepted(j, key) ==
  IF AcceptedBefore(j, key) = {} THEN 0
  ELSE logCalls[Max(AcceptedBefore(j, key))].ts

C13_ShutdownReturns == (shut # "none") ~> (shut = "returned")

\* C13, second half: when shutdownLogger has returned the queue is empty,
\* every accepted line has been written and no stream is left in the table
\* or unended.
C13_ReturnedClean ==
  shut = "returned" =>
    /\ Len(queue) = 0
    /\ {writeLog[x].n : x \in 1..Len(writeLog)}
         = {j \in 1..Len(logCalls) : logCalls[j].accepted}
    /\ \A k \in LogKeys :
         /\ ~streams[k].open
         /\ lastWrite[k] # 0 => streams[k].ended

\* ------------------------------------------------------------------------
\* Shutdown of the server (unnamed/part_000:848-860)
\* ------------------------------------------------------------------------

\* unnamed/part_000:848-854: SIGINT or SIGTERM arrives.  clearInterval, then
\* shutdownLogger, which with an empty queue ends the streams of the table;
\* with none open it returns and shutdown goes on to apiServer.close
shutdown ==
  /\ down = "running"
  /\ pollTimer
  /\ pollTimer' = FALSE
  /\ shut = "none"
  /\ IF Len(queue) = 0 THEN endStreams ELSE shut' = "loop"
  /\ down' = IF shut' = "returned" THEN "closingServer" ELSE "closingLogger"
  /\ UNCHANGED <<families, nTicks, ticks, lastReload, liveCache, cacheWrites,
                 mqttOut, alarmFed, dispatches, discarded>>
  /\ UNCHANGED <<lastWrite, queue, writing, waiting, streams, writeLog,
                 logCalls, spun, setCalls, modbus, codec, cmd>>
  /\ UNCHANGED alarmVars

\* unnamed/part_000:855-858: the close callback of the HTTP server; then
\* mqttClient.end(true, ...) closes the broker client (the process exits in
\* the callback of end, which is where the behaviours of this model stop
\* being those of the program)
ServerClosed ==
  /\ down = "closingServer"
  /\ down' = "brokerClosed"
  /\ UNCHANGED <<pollVars, alarmVars, logVars, setCalls, modbus, codec, cmd>>

ShutdownNext ==
  \/ PollNext
  \/ shutdown
  \/ ServerClosed

\* the poller with a shutdown signal arriving at any time after start()
SpecShutdown == PollerInit /\ [][ShutdownNext]_vars

\* C12: after the shutdown signal no tick is started, and the Log Writer is
\* not closed, and the broker client is not closed, while a tick is still
\* polling or flushing.
C12_TickCompletesFirst ==
  /\ down # "running" => ~pollTimer
  /\ (shut = "returned" \/ down = "brokerClosed")
       => \A k \in 1..nTicks : ~InProgress(k)

\* C12, first half: once the signal has arrived no tick is started.
C12_NoNewTick == [][down # "running" => nTicks' = nTicks]_vars

\* ------------------------------------------------------------------------
\* SpecThresholds: setAlarmThresholds calls between the frames of a
\* controller
\* ------------------------------------------------------------------------

\* setAlarmThresholds calls in SpecThresholds
MaxSetCalls == 2

block(low, high) == [present |-> TRUE, low |-> low, high |-> high]
noBlock == [present |-> FALSE, low |-> undefined, high |-> undefined]

\* bodies of POST /api/alarm-thresholds: new ph bounds with and without
\* the toggle, low above high, low equal to high, a bound that is not a
\* number, no ph block, no temp block
SetPayloads ==
  {[ph |-> block(76, 82), temp |-> block(180, 275), connectivity |-> "false"],
   [ph |-> block(76, 82), temp |-> block(150, 275), connectivity |-> "missing"],
   [ph |-> block(82, 76), temp |-> block(180, 275), connectivity |-> "true"],
   [ph |-> block(76, 76), temp |-> block(180, 275), connectivity |-> "true"],
   [ph |-> block(76, 82), temp |-> block(undefined, 275), connectivity |-> "true"],
   [ph |-> noBlock, temp |-> block(150, 275), connectivity |-> "true"],
   [ph |-> block(76, 82), temp |-> noBlock, connectivity |-> "missing"]}

\* POST /api/alarm-thresholds with body p
SetThresholds(p) ==
  /\ Len(setCalls) < MaxSetCalls
  /\ setAlarmThresholds(p)
  /\ UNCHANGED <<now, settingsFile, connectivityState, alarmState,
                 pendingEvents, evtSeq, frameLog, eventLog>>
  /\ UNCHANGED <<pollVars, logVars, down, modbus, codec, cmd>>

\* the write of the settings file of call i settles
PersistDone(i, written) ==
  /\ i \in 1..Len(setCalls)
  /\ setCalls[i].status = "writing"
  /\ persistSettings(i, written)
  /\ UNCHANGED <<now, currentConfig, ruleBounds, connectivityState,
                 alarmState, pendingEvents, evtSeq, frameLog, eventLog>>
  /\ UNCHANGED <<pollVars, logVars, down, modbus, codec, cmd>>

ThresholdsNext ==
  \/ \E p \in SetPayloads : SetThresholds(p)
  \/ \E i \in 1..MaxSetCalls, written \in BOOLEAN : PersistDone(i, written)
  \/ \E ph \in PhValues : Frame(1, "ok", ph, POLL_MS)

SpecThresholds == Init /\ [][ThresholdsNext]_vars

\* ------------------------------------------------------------------------
\* Claims on the thresholds (SpecThresholds)
\* ------------------------------------------------------------------------

goodBounds(b) == b.low # undefined /\ b.high # undefined /\ b.low < b.high

\* C14: after any sequence of setAlarmThresholds calls the in-memory config
\* has finite ph.low < ph.high and temp.low < temp.high and a boolean
\* toggle, and the bounds of the ph and temp rules are those of the config.
C14_ConfigValid ==
  /\ goodBounds(currentConfig.ph)
  /\ goodBounds(currentConfig.temp)
  /\ currentConfig.connectivity.qcAlarmsEnabled \in BOOLEAN
  /\ ruleBounds["ctrl_ph_out_of_range"] =
       [low |-> currentConfig.ph.low, high |-> currentConfig.ph.high]
  /\ ruleBounds["ctrl_temp_out_of_range"] =
       [low |-> currentConfig.temp.low, high |-> currentConfig.temp.high]

\* a rejected call (low not below high) and an accepted call with new bounds
C14_Witness ==
  /\ \E i \in 1..Len(setCalls) :
       /\ setCalls[i].status = "rejected"
       /\ setCalls[i].payload.ph.present
       /\ setCalls[i].payload.ph.low >= setCalls[i].payload.ph.high
  /\ \E i \in 1..Len(setCalls) : setCalls[i].status = "ok"
  /\ currentConfig.ph.low = 76

\* a payload with both blocks, each with finite low below high
wellFormed(payload) ==
  /\ payload.ph.present /\ goodBounds(payload.ph)
  /\ payload.temp.present /\ goodBounds(payload.temp)

\* C15: a payload is accepted only if both blocks are present, each with
\* finite low < high; every other payload is rejected; an accepted payload
\* without qcAlarmsEnabled gets the toggle true.
C15_AcceptsOnlyComplete ==
  \A i \in 1..Len(setCalls) :
    /\ setCalls[i].status # "rejected" <=> wellFormed(setCalls[i].payload)
    /\ (setCalls[i].status # "rejected"
         /\ setCalls[i].payload.connectivity = "missing")
       => setCalls[i].config.connectivity.qcAlarmsEnabled

\* the last call that was not rejected (0: none)
lastAccepted(calls) ==
  LET S == {i \in 1..Len(calls) : calls[i].status # "rejected"} IN
  IF S = {} THEN 0 ELSE Max(S)

\* config cfg carries the values of payload p, for what p contains
carries(cfg, payload) ==
  /\ payload.ph.present =>
       cfg.ph = [low |-> payload.ph.low, high |-> payload.ph.high]
  /\ payload.temp.present =>
       cfg.temp = [low |-> payload.temp.low, high |-> payload.temp.high]
  /\ payload.connectivity # "missing" =>
       cfg.connectivity.qcAlarmsEnabled = (payload.connectivity = "true")

\* C16: once setAlarmThresholds(p) has returned, getAlarmThresholds gives
\* the values of p (until the next accepted call), and the next frame of a
\* controller whose ph is below the ph.low of p, its ph rule being
\* inactive, puts an ALARM of that rule into the batch.
C16_AppliesAtOnce ==
  [][LET j == lastAccepted(setCalls)
         j2 == lastAccepted(setCalls')
     IN /\ (j2 > 0 /\ setCalls'[j2].status = "ok")
             => carries(getAlarmThresholds', setCalls'[j2].payload)
        /\ \A ph \in PhValues :
             (/\ Frame(1, "ok", ph, POLL_MS)
              /\ j > 0 /\ setCalls[j].status = "ok"
              /\ setCalls[j].payload.ph.present
              /\ ph < setCalls[j].payload.ph.low
              /\ ~alarmState[<<"ctrl_ph_out_of_range", "t1">>].active)
             => /\ Len(pendingEvents') = Len(pendingEvents) + 1
                /\ pendingEvents'[Len(pendingEvents')].kind = "ALARM"
                /\ pendingEvents'[Len(pendingEvents')].rule
                     = "ctrl_ph_out_of_range"
                /\ pendingEvents'[Len(pendingEvents')].tankId = "t1"]_vars

\* a frame inside the default bounds, then new bounds set and persisted,
\* then a frame that raised the ph alarm
C16_Witness ==
  /\ Len(frameLog["t1"]) >= 2
  /\ frameLog["t1"][1].evs = << >>
  /\ lastAccepted(setCalls) > 0
  /\ setCalls[lastAccepted(setCalls)].status = "ok"
  /\ setCalls[lastAccepted(setCalls)].payload.ph.low = 76
  /\ Len(eventLog) = 1
  /\ eventLog[1].kind = "ALARM"
  /\ eventLog[1].rule = "ctrl_ph_out_of_range"
  /\ eventLog[1].ts = now

\* ------------------------------------------------------------------------
\* Modbus transport (backend/src/modbusBlocks.js): the requests for one
\* device, that is one pool key (ip, port, unitId)
\* ------------------------------------------------------------------------

\* modbusBlocks.js:49, DEFAULTS.maxRetries
maxRetries == 2

\* readBlocksForDevice calls in SpecModbus
MaxRequests == 2

\* the blocks declared for the device, all with fn = 3
Blocks == <<"b1", "b2">>

\* how a connect can end, and how a block read can end on an open socket
\* (ECONNRESET: the socket emits error while the read is pending)
ConnectOutcomes == {"ok", "ECONNREFUSED", "connect timeout"}
ReadOutcomes == {"ok", "request timeout", "ECONNRESET"}

\* modbusBlocks.js:71-75: the pooled client is reused
reusable(m) ==
  /\ m.pool # 0
  /\ ~m.sockets[m.pool].closing
  /\ m.sockets[m.pool].state = "open"

\* modbusBlocks.js:101-111, 119-126: the entry of socket s is marked closing
\* and the key is deleted from the pool
poolDelete(m, s) ==
  [m EXCEPT !.sockets[s] = [state |-> "closed", closing |-> TRUE],
            !.pool = 0]

\* modbusBlocks.js:154-161 and the first call of fn in retry: the read of
\* block b starts on the client obtained at line 148
startBlock(m, b) ==
  [m EXCEPT !.req.pc = "reading", !.req.blk = b, !.req.attempt = 0,
            !.req.live = m.sockets[m.req.client].state = "open"]

\* retry that gives up one attempt early
retryCatch_OneShort(attempt, max) ==
  LET a == attempt + 1 IN
  IF a >= max THEN [attempt |-> a, again |-> FALSE, wait |-> 0]
  ELSE [attempt |-> a, again |-> TRUE, wait |-> 150 + a * 200]

\* modbusBlocks.js:207-212: the catch block of retry
retryCatch(attempt, max) ==
  LET a == attempt + 1 IN
  IF a > max THEN [attempt |-> a, again |-> FALSE, wait |-> 0]
  ELSE [attempt |-> a, again |-> TRUE, wait |-> 150 + a * 200]

\* everything the transport leaves alone
notModbus == <<pollVars, alarmVars, logVars, down, setCalls, codec, cmd>>

\* modbusBlocks.js:146-148, 62-90: readBlocksForDevice is called;
\* getOrCreateModbusClient returns the pooled client or starts a connect
ReadBlocks ==
  /\ modbus.req.pc \in {"idle", "done", "failed"}
  /\ modbus.nReq < MaxRequests
  /\ LET m == [modbus EXCEPT !.nReq = @ + 1, !.req = IdleReq] IN
       IF reusable(m)
         THEN modbus' = startBlock([m EXCEPT !.req.client = m.pool], 1)
         ELSE modbus' =
                [m EXCEPT !.sockets = Append(@, [state |-> "connecting",
                                                 closing |-> FALSE]),
                          !.req.client = Len(m.sockets) + 1,
                          !.req.pc = "connecting",
                          !.req.connects = 1]
  /\ UNCHANGED notModbus

\* modbusBlocks.js:80-111: the connect settles.  On success the entry is
\* put into the pool and the first block read starts; on an error or the
\* connect timeout the promise rejects and with it readBlocksForDevice.
ConnectDone(o) ==
  /\ modbus.req.pc = "connecting"
  /\ LET c == modbus.req.client IN
       IF o = "ok"
         THEN modbus' = startBlock(
                [modbus EXCEPT !.sockets[c].state = "open", !.pool = c,
                               !.timers = @ \cup {c}], 1)
         ELSE modbus' =
                [modbus EXCEPT !.sockets[c].state =
                                 IF o = "connect timeout" THEN @ ELSE "closed",
                               !.req.pc = "failed",
                               !.req.err = o]
  /\ UNCHANGED notModbus

\* modbusBlocks.js:140-143, 154-161, 201-215: the pending read settles
\* with o.  A request on a socket that is no longer open is refused by the
\* client ("offline").
ReadSettles(o) ==
  /\ modbus.req.pc = "reading"
  /\ IF modbus.req.live THEN o \in ReadOutcomes ELSE o = "offline"
  /\ LET rq == modbus.req
         m1 == [modbus EXCEPT !.attempts = Append(@,
                  [req |-> modbus.nReq, blk |-> rq.blk, attempt |-> rq.attempt,
                   sock |-> rq.client, live |-> rq.live, result |-> o])]
         m2 == IF o = "ECONNRESET" THEN poolDelete(m1, rq.client) ELSE m1
         r == retryCatch(rq.attempt, maxRetries)
     IN IF o = "ok"
          THEN IF rq.blk < Len(Blocks)
                 THEN modbus' = startBlock(m2, rq.blk + 1)
                 ELSE modbus' = [m2 EXCEPT !.req.pc = "done"]
        ELSE IF r.again
          THEN modbus' = [m2 EXCEPT !.req.pc = "backoff",
                                    !.req.attempt = r.attempt,
                                    !.waits = Append(@,
                                      [req |-> modbus.nReq, blk |-> rq.blk,
                                       attempt |-> r.attempt, ms |-> r.wait])]
        ELSE modbus' = [m2 EXCEPT !.req.pc = "failed",
                                  !.req.attempt = r.attempt,
                                  !.req.err = o]
  /\ UNCHANGED notModbus

\* modbusBlocks.js:204-205, 212: the backoff wait is over and retry calls
\* fn again, which reads on the client captured by readBlocksForDevice
BackoffDone ==
  /\ modbus.req.pc = "backoff"
  /\ modbus' = [modbus EXCEPT !.req.pc = "reading",
                              !.req.live =
                                modbus.sockets[modbus.req.client].state = "open"]
  /\ UNCHANGED notModbus

\* modbusBlocks.js:101-111: socket s emits close or error while no read is
\* pending on it
SocketClose(s) ==
  /\ s \in 1..Len(modbus.sockets)
  /\ modbus.sockets[s].state = "open"
  /\ ~(modbus.req.pc = "reading" /\ modbus.req.client = s)
  /\ modbus' = poolDelete(modbus, s)
  /\ UNCHANGED notModbus

ModbusNext ==
  \/ ReadBlocks
  \/ \E o \in ConnectOutcomes : ConnectDone(o)
  \/ \E o \in ReadOutcomes \cup {"offline"} : ReadSettles(o)
  \/ BackoffDone
  \/ \E s \in 1..MaxRequests : SocketClose(s)

SpecModbus == PollerInit /\ [][ModbusNext]_vars

\* modbusBlocks.js:62-91, 178-181: a second caller (writeRegisters of the
\* command subscriber, the poll of an overlapping tick) asks for the client
\* of the same key while the first caller's request is under way.  With a
\* reusable pool entry it gets that client; otherwise it makes a socket of
\* its own and connects.  modbus.other: 0 before the call, the socket it
\* connects, -1 once the call has settled.
OtherRequest ==
  /\ modbus.other = 0
  /\ modbus.req.pc \notin {"idle", "done", "failed"}
  /\ IF reusable(modbus)
       THEN modbus' = [modbus EXCEPT !.other = -1]
       ELSE modbus' =
              [modbus EXCEPT !.sockets = Append(@, [state |-> "connecting",
                                                    closing |-> FALSE]),
                             !.other = Len(modbus.sockets) + 1]
  /\ UNCHANGED notModbus

\* modbusBlocks.js:80-111: the connect of the second caller settles; on
\* success pool.set puts its entry under the key, whatever is there
OtherConnectDone(o) ==
  /\ modbus.other > 0
  /\ LET c == modbus.other IN
       modbus' =
         [modbus EXCEPT !.other = -1,
                        !.pool = IF o = "ok" THEN c ELSE @,
                        !.timers = IF o = "ok" THEN @ \cup {c} ELSE @,
                        !.sockets[c].state =
                          IF o = "ok" THEN "open"
                          ELSE IF o = "connect timeout" THEN @ ELSE "closed"]
  /\ UNCHANGED notModbus

\* modbusBlocks.js:80-91: the connect timeout rejects the promise and
\* leaves the socket alone; the connection is established afterwards.  The
\* socket is open, has none of the handlers of lines 101-111 and is in no
\* pool entry ("leaked").
LateConnect(s) ==
  /\ s \in 1..Len(modbus.sockets)
  /\ modbus.sockets[s].state = "connecting"
  /\ modbus.other # s
  /\ ~(modbus.req.pc = "connecting" /\ modbus.req.client = s)
  /\ modbus' = [modbus EXCEPT !.sockets[s].state = "leaked"]
  /\ UNCHANGED notModbus

\* the transport with a second caller for the same key
PoolNext ==
  \/ ReadBlocks
  \/ \E o \in ConnectOutcomes : ConnectDone(o)
  \/ \E o \in ReadOutcomes \cup {"offline"} : ReadSettles(o)
  \/ BackoffDone
  \/ \E s \in 1..(MaxRequests + 1) : SocketClose(s)
  \/ OtherRequest
  \/ \E o \in ConnectOutcomes : OtherConnectDone(o)
  \/ \E s \in 1..(MaxRequests + 1) : LateConnect(s)

SpecPool == PollerInit /\ [][PoolNext]_vars

\* ------------------------------------------------------------------------
\* Claims on the Modbus transport (SpecModbus)
\* ------------------------------------------------------------------------

\* the attempts and the waits of the retry call for block b of request r
attemptsOf(r, b) ==
  SelectSeq(modbus.attempts, LAMBDA a : a.req = r /\ a.blk = b)
waitsOf(r, b) ==
  SelectSeq(modbus.waits, LAMBDA w : w.req = r /\ w.blk = b)

\* C17: a retry call makes at most maxRetries + 1 attempts and none after
\* a successful one; before its k-th re-attempt it waits 150 + k * 200 ms;
\* it fails only after maxRetries + 1 failed attempts, with the error of
\* the last of them; a request that is done had every block read succeed.
C17_RetryPolicy ==
  /\ \A r \in 1..modbus.nReq, b \in 1..Len(Blocks) :
       LET A == attemptsOf(r, b)
           W == waitsOf(r, b)
       IN /\ Len(A) <= maxRetries + 1
          /\ \A i \in 1..Len(A) :
               /\ A[i].attempt = i - 1
               /\ A[i].result = "ok" => i = Len(A)
          /\ Len(W) <= maxRetries
          /\ \A k \in 1..Len(W) : W[k].ms = 150 + k * 200
          /\ \A i \in 2..Len(A) : Len(W) >= i - 1
  /\ (modbus.req.pc = "failed" /\ modbus.req.blk > 0) =>
       LET A == attemptsOf(modbus.nReq, modbus.req.blk) IN
       /\ Len(A) = maxRetries + 1
       /\ \A i \in 1..Len(A) : A[i].result # "ok"
       /\ modbus.req.err = A[Len(A)].result
  /\ modbus.req.pc = "done" =>
       \A b \in 1..Len(Blocks) :
         LET A == attemptsOf(modbus.nReq, b) IN
         Len(A) > 0 /\ A[Len(A)].result = "ok"

\* a block read failed three times with different errors and the request
\* failed with the last one, after waits of 350 and 550 ms
C17_Witness ==
  /\ modbus.req.pc = "failed"
  /\ modbus.req.blk = 2
  /\ Len(attemptsOf(modbus.nReq, 2)) = 3
  /\ attemptsOf(modbus.nReq, 2)[1].result = "request timeout"
  /\ modbus.req.err = "offline"
  /\ Len(attemptsOf(modbus.nReq, 1)) = 2
  /\ Len(waitsOf(modbus.nReq, 2)) = 2

\* C18: the entry of a socket that closed or failed is marked closing and
\* is out of the pool, and no attempt, be it a retry of the same block read
\* or a later request, is made on a socket that is not open.
C18_ReconnectAfterError ==
  /\ \A s \in 1..Len(modbus.sockets) :
       modbus.sockets[s].state = "closed" /\ modbus.sockets[s].closing
         => modbus.pool # s
  /\ \A i \in 1..Len(modbus.attempts) : modbus.attempts[i].live

\* C19: the poll of a device fails on a connect error or connect timeout
\* only after maxRetries + 1 connects.
C19_ConnectRetried ==
  (modbus.req.pc = "failed" /\ modbus.req.blk = 0)
    => modbus.req.connects = maxRetries + 1

\* ------------------------------------------------------------------------
\* Claims on the Live Cache (Spec)
\* ------------------------------------------------------------------------

\* C20: when the poll of a device ends, the Live Cache entry of its tank
\* becomes exactly family, ip, ts_utc, qc and the values of the frame (none
\* for a fail frame, whatever the entry held before), and the entries of
\* the other tanks stay as they were.
C20_EntryReplaced ==
  [][\A k \in 1..MaxTicks, w \in 1..Len(Devices), o \in PollOutcomes :
       ReadDone(k, w, o) =>
         LET dev == ticks[k].work[ticks[k].wk[w].idx + 1] IN
         /\ liveCache'[dev.tankId] =
              [present |-> TRUE, family |-> dev.family, ip |-> dev.ip,
               ts_utc |-> now, qc |-> IF o.ok THEN "ok" ELSE "fail",
               s |-> IF o.ok THEN o.values ELSE NoValues]
         /\ \A t \in Tanks \ {dev.tankId} : liveCache'[t] = liveCache[t]]_vars

\* the entry of t1 held the values of an ok frame of the first tick and is
\* now that of a fail frame of the second, next to an ok entry of t2
C20_Witness ==
  /\ \E f1, f2 \in cacheWrites :
       /\ f1.tick = 1 /\ f1.idx = 0 /\ f1.qc = "ok"
       /\ f2.tick = 2 /\ f2.idx = 0 /\ f2.qc = "fail"
  /\ liveCache["t1"].qc = "fail"
  /\ liveCache["t1"].s = NoValues
  /\ liveCache["t2"].qc = "ok"

\* ------------------------------------------------------------------------
\* SpecReload: the interval firing often enough for the families to be
\* reloaded, the reads of the ticks still pending
\* ------------------------------------------------------------------------

\* tick() calls in SpecReload
MaxReloadTicks == 16

ReloadInit ==
  /\ AlarmInit /\ ~settingsFile.exists
  /\ pollInit(MaxReloadTicks)
  /\ LogInit /\ DownInit /\ SetInit /\ ModbusInit /\ CodecInit /\ CmdInit

ReloadNext ==
  \/ start
  \/ TimerFire

SpecReload == ReloadInit /\ [][ReloadNext]_vars

\* C21: a tick reloads the families exactly when FAMILY_RELOAD_MS have
\* passed since the last attempt, whether that attempt failed or not; a
\* reload that fails leaves the family set as it was, the tick polls that
\* set, and a reload that succeeds installs a set that loadFamilies
\* returned, never part of one.
C21_ReloadFailureKeepsFamilies ==
  [][nTicks' = nTicks + 1 =>
       LET k == nTicks'
           due == now' - lastReload >= FAMILY_RELOAD_MS
       IN /\ ticks'[k].reload # "none" <=> due
          /\ ticks'[k].reload \in {"none", "failed"} => families' = families
          /\ ticks'[k].reload = "ok" => families' \in LoadableFamilies
          /\ ticks'[k].work = families'
          /\ lastReload' = IF due THEN now' ELSE lastReload]_vars

\* a reload failed, the tick polled the three devices it had, and the next
\* reload installed another set
C21_Witness ==
  \E i, j \in 1..nTicks :
    /\ i < j
    /\ ticks[i].reload = "failed"
    /\ ticks[i].work = Devices
    /\ Len(ticks[i].wk) = CONCURRENCY
    /\ ticks[j].reload = "ok"
    /\ ticks[j].work = SubSeq(Devices, 1, 2)
    /\ families = SubSeq(Devices, 1, 2)

\* ------------------------------------------------------------------------
\* SpecToggle: the frames of a controller with the connectivity toggle
\* switched on and off from the Settings page (the writes of the settings
\* file, which touch neither the config nor the alarm state, still pending)
\* ------------------------------------------------------------------------
ToggleNext ==
  \/ \E p \in TogglePayloads : SetThresholds(p)
  \/ \E qc \in {"ok", "fail"}, ph \in PhValues, d \in FrameDeltas :
       Frame(1, qc, ph, d)

SpecToggle == PollerInit /\ [][ToggleNext]_vars

\* the events appended to the pending batch by the step
newEvents == SubSeq(pendingEvents', Len(pendingEvents) + 1, Len(pendingEvents'))

\* C22: while connectivity.qcAlarmsEnabled is false a frame, ok or fail,
\* leaves the stored state of (qc_fail, tank) as it was and appends no
\* qc_fail event to the batch, while the ph rule of a controller is still
\* evaluated on the frame's value.
C22_ToggleOffSkipsQc ==
  [][\A qc \in {"ok", "fail"}, ph \in PhValues, d \in FrameDeltas :
       (Frame(1, qc, ph, d) /\ ~currentConfig.connectivity.qcAlarmsEnabled)
       => /\ \A t \in Tanks :
               alarmState'[<<"qc_fail", t>>] = alarmState[<<"qc_fail", t>>]
          /\ \A x \in 1..Len(newEvents) : newEvents[x].rule # "qc_fail"
          /\ qc = "ok" =>
               alarmState'[<<"ctrl_ph_out_of_range", "t1">>].active
                 = (ph < ruleBounds["ctrl_ph_out_of_range"].low
                    \/ ph > ruleBounds["ctrl_ph_out_of_range"].high)]_vars

\* the connectivity alarm of t1 was raised, the toggle was switched off,
\* and the ok frame that followed raised the ph alarm and left the
\* connectivity alarm standing
C22_Witness ==
  LET F == frameLog["t1"] IN
  /\ Len(F) >= 3
  /\ ~F[Len(F)].en /\ F[Len(F)].pre /\ F[Len(F)].qc = "ok"
  /\ \E x \in 1..Len(F[Len(F)].evs) :
       /\ F[Len(F)].evs[x].rule = "ctrl_ph_out_of_range"
       /\ F[Len(F)].evs[x].kind = "ALARM"
  /\ alarmState[<<"qc_fail", "t1">>].active

\* ------------------------------------------------------------------------
\* Further claims on the alarm engine (SpecAlarm)
\* ------------------------------------------------------------------------

\* the fail frames at the end of L
trailingFails(L) ==
  IF Len(L) = 0 \/ L[Len(L)].qc # "fail" THEN 0
  ELSE Len(L) - StreakStart(L, Len(L)) + 1

\* time of the last ok frame of L (0: none)
lastOkOf(L) ==
  LET S == {i \in 1..Len(L) : L[i].qc = "ok"} IN
  IF S = {} THEN 0 ELSE L[Max(S)].ts

\* C29: for every tank consecutiveFails is the number of fail frames since
\* its last ok frame; firstFail is set (non-null, here non-zero) iff
\* consecutiveFails > 0 and is then the time of the first fail of the
\* current streak; lastOk is the time of the last ok frame, null if none.
C29_ConnectivityState ==
  \A t \in Tanks :
    LET L == frameLog[t]
        c == connectivityState[t]
    IN /\ c.consecutiveFails = trailingFails(L)
       /\ c.firstFail # 0 <=> c.consecutiveFails > 0
       /\ c.consecutiveFails > 0 => c.firstFail = L[StreakStart(L, Len(L))].ts
       /\ c.lastOk = lastOkOf(L)

\* a tank with an ok frame, a fail, an ok and then a streak of two fails
C29_Witness ==
  \E t \in Tanks :
    LET L == frameLog[t] IN
    /\ Len(L) = 4
    /\ L[1].qc = "fail" /\ L[2].qc = "ok"
    /\ L[3].qc = "fail" /\ L[4].qc = "fail"
    /\ connectivityState[t].consecutiveFails = 2
    /\ connectivityState[t].firstFail = L[3].ts
    /\ connectivityState[t].lastOk = L[2].ts

\* ------------------------------------------------------------------------
\* SpecMetric: the frames of a controller with ph below, at, between and
\* above the bounds, and missing
\* ------------------------------------------------------------------------

\* ph of an ok frame (tenths), around DEFAULT_CONFIG.ph; undefined: the
\* point is missing from the frame or is not a finite number
MetricValues == {71, 72, 77, 82, 83, undefined}

MetricNext ==
  \E qc \in {"ok", "fail"}, ph \in MetricValues : Frame(1, qc, ph, POLL_MS)

SpecMetric == PollerInit /\ [][MetricNext]_vars

\* C28: a frame in which ph is missing or not finite, and every fail frame,
\* leaves the state of the ph rule (and a fail frame that of the temp rule)
\* as it was and emits no event of the rule; otherwise the rule is active
\* after the frame iff value < low or value > high, a value at a bound not
\* being an alarm.
C28_MetricRule ==
  [][\A qc \in {"ok", "fail"}, ph \in MetricValues :
       Frame(1, qc, ph, POLL_MS) =>
         LET value == IF qc = "ok" THEN ph ELSE undefined
             key == <<"ctrl_ph_out_of_range", "t1">>
             b == ruleBounds["ctrl_ph_out_of_range"]
         IN /\ value = undefined =>
                 /\ alarmState'[key] = alarmState[key]
                 /\ \A x \in 1..Len(newEvents) :
                      newEvents[x].rule # "ctrl_ph_out_of_range"
            /\ qc = "fail" =>
                 /\ alarmState'[<<"ctrl_temp_out_of_range", "t1">>]
                      = alarmState[<<"ctrl_temp_out_of_range", "t1">>]
                 /\ \A x \in 1..Len(newEvents) :
                      newEvents[x].rule # "ctrl_temp_out_of_range"
            /\ value # undefined =>
                 alarmState'[key].active = (value < b.low \/ value > b.high)
            /\ value \in {b.low, b.high} => ~alarmState'[key].active]_vars

\* the ph alarm was raised, stayed through a frame without ph and through
\* a fail frame, and was resolved by a frame with ph equal to the low bound
C28_Witness ==
  LET L == frameLog["t1"] IN
  /\ Len(L) = 4
  /\ L[1].ph = 71
  /\ \E x \in 1..Len(L[1].evs) : L[1].evs[x].kind = "ALARM"
  /\ L[2].qc = "ok" /\ L[2].ph = undefined /\ L[2].evs = << >>
  /\ L[3].qc = "fail" /\ L[3].evs = << >>
  /\ L[4].ph = 72
  /\ \E x \in 1..Len(L[4].evs) :
       L[4].evs[x].kind = "RESOLVED"
       /\ L[4].evs[x].rule = "ctrl_ph_out_of_range"

\* ------------------------------------------------------------------------
\* Register map codec: the calls (unnamed/part_005, unnamed/part_002)

\* the values a command asks for, by the type of the point: in and out of
\* the type's range, in and out of the safe bounds, NaN and Infinity
RawValues ==
  [t \in PointTypes |->
     CASE t = "u16" -> {NaN, Infinity, -1, 7, 101, 258, 65535, 70000}
       [] t = "i16" -> {NaN, Infinity, -32768, -2, 7, 101, 32767, 40000}
       [] t = "u32" -> {NaN, Infinity, -1, 7, 101, 16909060, 202182159}
       [] t = "i32" -> {NaN, Infinity, -202182159, -2, 7, 101, 16909060,
                        202182159}
       [] t = "float32" -> {NaN, Infinity, 7, 50, 101}
       [] OTHER -> {NaN, 7}]

\* unnamed/part_005:138-180: one planWrite call on the map
PlanWrite(name, raw, allowClamp) ==
  LET ls == IF name \in PointNames THEN codec.lastSet[name] ELSE undefined
      r == planWrite(codec.map, name, raw, allowClamp, ls)
  IN
  /\ codec' = [codec EXCEPT
       !.lastSet = IF name \in PointNames
                   THEN [@ EXCEPT ![name] = r.lastSet] ELSE @,
       !.last = [name |-> name, raw |-> raw, allowClamp |-> allowClamp,
                 res |-> r, written |-> FALSE]]
  /\ UNCHANGED <<pollVars, alarmVars, logVars, down, setCalls, modbus, cmd>>

\* unnamed/part_002:92-95: the words of the plan, each read as a big-endian
\* u16, are written to the registers from plan.start on
WriteDone ==
  /\ codec.last.res.outcome = "plan"
  /\ ~codec.last.written
  /\ LET r == codec.last.res IN
     codec' = [codec EXCEPT
       !.last.written = TRUE,
       !.regs = [a \in RegAddrs |->
                   IF a >= r.start /\ a < r.start + Len(r.words)
                   THEN readU16(r.words[a - r.start + 1], 0, "BE")
                   ELSE @[a]]]
  /\ UNCHANGED <<pollVars, alarmVars, logVars, down, setCalls, modbus, cmd>>

\* the bytes a block read returns: the registers of the block, each most
\* significant byte first
bufferOf(regs, blk) ==
  [i \in 1..(2 * blk.len) |->
     LET w == regs[blk.start + (i - 1) \div 2] IN
     IF i % 2 = 1 THEN w \div 256 ELSE w % 256]

\* the block buffers handed to decodePointsFromBlocks: every block, the
\* buffer of b1 missing, the buffer of b1 cut to two registers
BufferKinds == {"full", "missing", "short"}
blockBuffersOf(regs, kind) ==
  LET b1 == bufferOf(regs, mapBlocks[1])
      b2 == bufferOf(regs, mapBlocks[2])
  IN CASE kind = "missing" -> [n \in {"b2"} |-> b2]
       [] kind = "short" -> [n \in {"b1", "b2"} |->
                               IF n = "b1" THEN SubSeq(b1, 1, 4) ELSE b2]
       [] OTHER -> [n \in {"b1", "b2"} |-> IF n = "b1" THEN b1 ELSE b2]

\* unnamed/part_002:116-117, unnamed/part_000:720-721: the blocks are read
\* and decoded
Decode(kind) ==
  /\ LET d == decodePointsFromBlocks(codec.map,
                                     blockBuffersOf(codec.regs, kind)) IN
     codec' = [codec EXCEPT
       !.decoded = [kind |-> kind, threw |-> d.threw, out |-> d.out]]
  /\ UNCHANGED <<pollVars, alarmVars, logVars, down, setCalls, modbus, cmd>>

\* everything but the codec, as Init has it
BaseInit ==
  /\ AlarmInit /\ ~settingsFile.exists
  /\ PollInit /\ LogInit /\ DownInit /\ SetInit /\ ModbusInit /\ CmdInit

\* the command handler and the republish on maps of every point type,
\* scale, offset, safe bounds, byte order and word order, without deadband
CodecDefs == {d \in PointDefs : d.deadband = undefined}
Orders == {"BE", "LE"} \X {"ABCD", "CDAB"}
CodecNext ==
  \/ \E raw \in RawValues[codec.map.points["sp"].type] :
       PlanWrite("sp", raw, TRUE)
  \/ WriteDone
  \/ \E kind \in BufferKinds : Decode(kind)
CodecMapsInit == BaseInit /\ codecInit(CodecDefs, Orders)
SpecCodec == CodecMapsInit /\ [][CodecNext]_vars

\* planWrite calls of any point name, value and allowClamp on maps of every
\* point type, safe bounds and deadband
PlanDefs == {d \in PointDefs : d.scale = undefined /\ d.offset = undefined}
PlanNext ==
  \E name \in {"sp", "ro", "nope"},
     raw \in RawValues[codec.map.points["sp"].type],
     allowClamp \in BOOLEAN :
       PlanWrite(name, raw, allowClamp)
PlanMapsInit == BaseInit /\ codecInit(PlanDefs, {<<"BE", "ABCD">>})
SpecPlan == PlanMapsInit /\ [][PlanNext]_vars

\* the value a u16 point without scale or offset has for register w under
\* the byte order of the map
asRead(w) ==
  IF codec.map.byte_order = "LE" THEN (w % 256) * 256 + w \div 256 ELSE w

\* what the decode of the points "ro", "q" and "far" is to give: the point
\* in no block and the points of a missing buffer undefined, the others the
\* registers
othersDecoded ==
  LET d == codec.decoded IN
  /\ d.out["far"] = undefined
  /\ d.out["q"] = asRead(codec.regs[200])
  /\ d.out["ro"] = IF d.kind = "missing" THEN undefined
                   ELSE asRead(codec.regs[100])

\* C23: decodePointsFromBlocks never throws: whatever the map and the block
\* buffers (a buffer missing, a buffer too short, a point in no block, a
\* point of an unsupported type), the call returns; the points it cannot
\* decode are undefined and the other points have their register's value.
C23_DecodeNeverThrows ==
  LET d == codec.decoded IN
  d.kind # "none" =>
    /\ ~d.threw
    /\ othersDecoded
    /\ (d.kind # "full" \/ wordsForType(codec.map.points["sp"].type) = 0)
         => d.out["sp"] = undefined

\* C23, the part that holds: with every point of a supported type the call
\* returns, and a missing or short buffer costs only the points in it.
C23_SupportedTypes ==
  LET d == codec.decoded IN
  (d.kind # "none" /\ wordsForType(codec.map.points["sp"].type) # 0) =>
    /\ ~d.threw
    /\ othersDecoded
    /\ d.kind # "full" => d.out["sp"] = undefined

\* the planWrite call just made repeats the call before it: the same
\* writable point with a deadband, the same value, and both returned a plan
sameValueAgain ==
  /\ codec'.last.name = "sp" /\ codec.last.name = "sp"
  /\ codec.map.points["sp"].deadband # undefined
  /\ codec.map.points["sp"].deadband > 0
  /\ codec'.last.raw = codec.last.raw
  /\ codec.last.res.outcome = "plan"
  /\ codec'.last.res.outcome = "plan"

\* C24: for a writable point with deadband > 0 the second of two successive
\* planWrite calls with the same value returns a plan with reason
\* "deadband_skip", and a planWrite call that fails leaves the remembered
\* last-set value of every point as it was.
C24_DeadbandAndFailure ==
  [][/\ sameValueAgain => codec'.last.res.reason = "deadband_skip"
     /\ codec'.last.res.outcome = "throw" => codec'.lastSet = codec.lastSet
    ]_vars

\* C24, the part that holds: the same for a finite value, and for the four
\* failures the claim lists (unknown point, read-only, NaN, out of bounds
\* without clamp).
C24_FiniteAndListed ==
  [][/\ (sameValueAgain /\ codec'.last.raw # Infinity)
          => codec'.last.res.reason = "deadband_skip"
     /\ codec'.last.res.error \in
          {"unknown_point", "read_only", "nan", "out_of_bounds"}
          => codec'.lastSet = codec.lastSet
    ]_vars

\* C24, the two ways it fails, each alone
C24_SecondIsSkip ==
  [][sameValueAgain => codec'.last.res.reason = "deadband_skip"]_vars
C24_FailureKeepsLastSet ==
  [][codec'.last.res.outcome = "throw" => codec'.lastSet = codec.lastSet]_vars

\* the words of a plan for value v of the writable point "sp", of an integer
\* type whose range holds v, are in the registers, and the registers are now
\* read in full and decoded; a value planWrite clamped to the safe bounds
\* (plan.value is not v, reason "clamped") is set apart
roundTrip ==
  /\ Decode("full")
  /\ codec.last.name = "sp" /\ codec.last.written
  /\ codec.map.points["sp"].type \in IntegerTypes
  /\ codec.last.raw \notin {NaN, Infinity}
  /\ codec.last.res.value = codec.last.raw
  /\ writeBytes(codec.map.points["sp"].type, codec.last.raw, "BE")
       # <<RangeError>>

\* C25: for a writable point of an integer type and a value v in the type's
\* range, writing the words of planWrite(point, v) to the registers at the
\* point's address and decoding them gives exactly v, in every byte order
\* and word order.
C25_RoundTrip ==
  [][roundTrip => codec'.decoded.out["sp"] = codec.last.raw]_vars

\* C25, the part that holds: the same for a point without scale and offset.
C25_PlainRoundTrip ==
  [][(/\ roundTrip
      /\ codec.map.points["sp"].scale = undefined
      /\ codec.map.points["sp"].offset = undefined)
       => codec'.decoded.out["sp"] = codec.last.raw]_vars

\* C26: after a log stream has reported an error the writer continues: the
\* lines queued behind the failed write and the lines enqueued afterwards
\* are eventually all written, and the writer does not stay in the writing
\* state for ever.
C26_WriterContinues ==
  (\E k \in LogKeys : streams[k].failed) ~> (~writing /\ Len(queue) = 0)

\* the frames of the poll of work item x of tick k in history h
framesOf(h, k, x) == {f \in h : f.tick = k /\ f.idx = x - 1}

\* C27: in every tick each polled device yields exactly one telemetry frame,
\* an ok frame or a fail frame and never both: a work item not yet polled
\* has no frame, a polled one has one frame in Live Cache's history and one
\* published, of the status the poll ended with. (Of the steps of a poll
\* the read and the decode can throw, which ends in the catch block; a
\* publish error goes to the callback of client.publish, a logging error is
\* caught in publishTelemetry and the alarm evaluation has no throwing
\* statement.)
C27_OneFramePerPoll ==
  \A k \in 1..MaxTicks : \A x \in 1..Len(ticks[k].work) :
    \A h \in {mqttOut, cacheWrites} :
      IF ticks[k].out[x] = "none" THEN framesOf(h, k, x) = {}
      ELSE /\ Cardinality(framesOf(h, k, x)) = 1
           /\ \A f \in framesOf(h, k, x) : f.qc = ticks[k].out[x]

\* a tick that has ended with a device polled ok and a device that failed
C27_Witness ==
  \E k \in 1..MaxTicks :
    /\ Ended(k)
    /\ \E x, y \in 1..Len(ticks[k].work) :
         /\ ticks[k].out[x] = "ok" /\ ticks[k].out[y] = "fail"
         /\ Cardinality(framesOf(mqttOut, k, x)) = 1
         /\ Cardinality(framesOf(mqttOut, k, y)) = 1

\* the sockets of the key that hold an open connection
OpenSockets ==
  {s \in 1..Len(modbus.sockets) :
     modbus.sockets[s].state \in {"open", "leaked"}}

\* C30: at any time at most one open socket exists for the key (two
\* concurrent requests never open two connections), and an open socket the
\* transport created is the one registered in the pool under the key.
C30_OneOpenSocket ==
  /\ Cardinality(OpenSockets) <= 1
  /\ \A s \in OpenSockets : modbus.pool = s

\* C30: two connections open at once
C30_AtMostOneOpen == Cardinality(OpenSockets) <= 1

\* C30: an open socket that is not the pool's
C30_OpenIsPooled == \A s \in OpenSockets : modbus.pool = s

\* ------------------------------------------------------------------------
\* Modbus transport: writeRegisters (backend/src/modbusBlocks.js:178-197)
\* A write request is the request of the key with req.fc set (reads have
\* fc = 0); its attempts and waits are logged with blk = 0.
\* ------------------------------------------------------------------------

\* the function codes writeRegisters is called with: 6, 16 and one that is
\* neither
WriteFcs == {6, 16, 5}

\* modbusBlocks.js:182-194, 203-212: retry calls doWrite.  For fc 6 or 16
\* the write is sent and awaited; for any other fc doWrite throws, the catch
\* of retry counts the attempt and waits, or gives up after the last one.
doWrite(m) ==
  LET rq == m.req
      r == retryCatch(rq.attempt, maxRetries)
      m1 == [m EXCEPT !.attempts = Append(@,
               [req |-> m.nReq, blk |-> 0, attempt |-> rq.attempt,
                sock |-> rq.client, live |-> FALSE,
                result |-> "unsupported fc"])]
  IN
  IF rq.fc \in {6, 16}
    THEN [m EXCEPT !.req.pc = "writing",
                   !.req.live = m.sockets[rq.client].state = "open"]
  ELSE IF r.again
    THEN [m1 EXCEPT !.req.pc = "wbackoff", !.req.attempt = r.attempt,
                    !.waits = Append(@, [req |-> m.nReq, blk |-> 0,
                                         attempt |-> r.attempt,
                                         ms |-> r.wait])]
  ELSE [m1 EXCEPT !.req.pc = "failed", !.req.attempt = r.attempt,
                  !.req.err = "unsupported fc"]

\* modbusBlocks.js:178-180, 62-90: writeRegisters is called;
\* getOrCreateModbusClient returns the pooled client or starts a connect
WriteRegisters(fc) ==
  /\ modbus.req.pc \in {"idle", "done", "failed"}
  /\ modbus.nReq < MaxRequests
  /\ LET m == [modbus EXCEPT !.nReq = @ + 1, !.req = IdleReq,
                             !.req.fc = fc] IN
       IF reusable(m)
         THEN modbus' = doWrite([m EXCEPT !.req.client = m.pool])
         ELSE modbus' =
                [m EXCEPT !.sockets = Append(@, [state |-> "connecting",
                                                 closing |-> FALSE]),
                          !.req.client = Len(m.sockets) + 1,
                          !.req.pc = "wconnecting",
                          !.req.connects = 1]
  /\ UNCHANGED notModbus

\* modbusBlocks.js:80-111, 180: the connect of a write request settles
WriteConnectDone(o) ==
  /\ modbus.req.pc = "wconnecting"
  /\ LET c == modbus.req.client IN
       IF o = "ok"
         THEN modbus' = doWrite(
                [modbus EXCEPT !.sockets[c].state = "open", !.pool = c,
                               !.timers = @ \cup {c}])
         ELSE modbus' =
                [modbus EXCEPT !.sockets[c].state =
                                 IF o = "connect timeout" THEN @ ELSE "closed",
                               !.req.pc = "failed",
                               !.req.err = o]
  /\ UNCHANGED notModbus

\* modbusBlocks.js:183-192, 201-215: the pending register write settles
WriteSettles(o) ==
  /\ modbus.req.pc = "writing"
  /\ IF modbus.req.live THEN o \in ReadOutcomes ELSE o = "offline"
  /\ LET rq == modbus.req
         m1 == [modbus EXCEPT !.attempts = Append(@,
                  [req |-> modbus.nReq, blk |-> 0, attempt |-> rq.attempt,
                   sock |-> rq.client, live |-> rq.live, result |-> o])]
         m2 == IF o = "ECONNRESET" THEN poolDelete(m1, rq.client) ELSE m1
         r == retryCatch(rq.attempt, maxRetries)
     IN IF o = "ok" THEN modbus' = [m2 EXCEPT !.req.pc = "done"]
        ELSE IF r.again
          THEN modbus' = [m2 EXCEPT !.req.pc = "wbackoff",
                                    !.req.attempt = r.attempt,
                                    !.waits = Append(@,
                                      [req |-> modbus.nReq, blk |-> 0,
                                       attempt |-> r.attempt, ms |-> r.wait])]
        ELSE modbus' = [m2 EXCEPT !.req.pc = "failed",
                                  !.req.attempt = r.attempt,
                                  !.req.err = o]
  /\ UNCHANGED notModbus

\* modbusBlocks.js:204-205, 212: the backoff wait of a write request is
\* over and retry calls doWrite again
WriteBackoffDone ==
  /\ modbus.req.pc = "wbackoff"
  /\ modbus' = doWrite(modbus)
  /\ UNCHANGED notModbus

WriteNext ==
  \/ \E fc \in WriteFcs : WriteRegisters(fc)
  \/ \E o \in ConnectOutcomes : WriteConnectDone(o)
  \/ \E o \in ReadOutcomes \cup {"offline"} : WriteSettles(o)
  \/ WriteBackoffDone
  \/ \E s \in 1..MaxRequests : SocketClose(s)

SpecWrite == PollerInit /\ [][WriteNext]_vars

\* the calls of doWrite and the waits of write request r
writeAttempts(r) == attemptsOf(r, 0)
writeWaits(r) == waitsOf(r, 0)

\* C31: writeRegisters with a function code other than 6 or 16 fails at
\* once: no register write is sent, doWrite is not called again, and no
\* backoff is waited for before the error is returned.
C31_UnknownFcFailsAtOnce ==
  (modbus.req.fc \notin {0, 6, 16}
   /\ modbus.req.pc \notin {"idle", "wconnecting"}) =>
    /\ modbus.req.pc = "failed"
    /\ Len(writeAttempts(modbus.nReq)) <= 1
    /\ writeWaits(modbus.nReq) = << >>
    /\ \A i \in 1..Len(writeAttempts(modbus.nReq)) :
         writeAttempts(modbus.nReq)[i].result = "unsupported fc"

\* C31, the part that holds: such a request sends no register write and
\* ends as failed with the error of the function code.
C31_NoWriteSent ==
  modbus.req.fc \notin {0, 6, 16} =>
    /\ modbus.req.pc # "writing" /\ modbus.req.pc # "done"
    /\ \A i \in 1..Len(writeAttempts(modbus.nReq)) :
         writeAttempts(modbus.nReq)[i].result = "unsupported fc"
    /\ (modbus.req.pc = "failed" /\ modbus.req.connects = 0)
         => modbus.req.err = "unsupported fc"

\* ------------------------------------------------------------------------
\* The consumer of the log queue
\* ------------------------------------------------------------------------

\* the lines pushed on the queue, in the order of their logTelemetry calls
RECURSIVE enqueuedUpTo(_)
enqueuedUpTo(j) ==
  IF j = 0 THEN << >>
  ELSE IF logCalls[j].accepted
    THEN Append(enqueuedUpTo(j - 1),
                [stream |-> callKey(logCalls[j]), n |-> j])
  ELSE enqueuedUpTo(j - 1)

written(n) == \E i \in 1..Len(writeLog) : writeLog[i].n = n

\* C32: every line pushed on the queue is written: once a logTelemetry call
\* has been accepted its line is eventually passed to stream.write.
C32_EveryLineWritten ==
  \A n \in 1..MaxLogCalls :
    (n <= Len(logCalls) /\ logCalls[n].accepted) ~> written(n)

\* C32, the order and the count: the lines written so far followed by the
\* lines still queued are the pushed lines in the order they were pushed,
\* each one once; the flag writing is set exactly while the one flushQueue
\* loop is suspended on a drain event, and nothing is queued while no loop
\* is active.
C32_InOrderAtMostOnce ==
  /\ writeLog \o queue = enqueuedUpTo(Len(logCalls))
  /\ writing <=> waiting # "none"
  /\ ~writing => queue = << >>

\* C32, one consumer: a step in which lines are written either starts the
\* loop from writing = false or is the drain event resuming the suspended
\* loop; a logTelemetry or shutdownLogger step taken while the loop awaits
\* its drain event writes no line and leaves the loop waiting.
C32_OneConsumer ==
  [][/\ writeLog' # writeLog
        => (~writing \/ (logCalls' = logCalls /\ shut' = shut))
     /\ (waiting # "none" /\ (logCalls' # logCalls \/ shut' # shut))
        => (writeLog' = writeLog /\ waiting' = waiting /\ writing')]_vars

\* C32 without the shutdown loop: a pushed line is eventually written unless
\* shutdownLogger goes round its loop for ever.
C32_WrittenUnlessShutdownLoops ==
  \A n \in 1..MaxLogCalls :
    (n <= Len(logCalls) /\ logCalls[n].accepted)
      ~> (written(n) \/ shut = "loop")

\* two lines are queued behind a line whose write returned false
C32_Witness ==
  /\ waiting # "none"
  /\ Len(queue) >= 2
  /\ Len(writeLog) >= 1

\* ------------------------------------------------------------------------
\* Families that share a tankId
\* ------------------------------------------------------------------------

\* unnamed/part_000:668-708: loadFamilies reads every *Config.json on its
\* own; here tankConfig.json and utilityConfig.json both have the key t2
SharedDevices ==
  << [family |-> "ctrl", tankId |-> "t1", ip |-> "10.0.0.1"],
     [family |-> "util", tankId |-> "t2", ip |-> "10.0.0.2"],
     [family |-> "ctrl", tankId |-> "t2", ip |-> "10.0.0.4"] >>

SharedInit ==
  /\ AlarmInit /\ ~settingsFile.exists
  /\ pollInitOf(MaxTicks, SharedDevices)
  /\ LogInit /\ DownInit /\ SetInit /\ ModbusInit /\ CodecInit /\ CmdInit

\* the poller with the families of SharedDevices
SpecShared == SharedInit /\ [][PollNext]_vars

\* the tankId, and so the Live Cache key, of work item idx of tick k
keyOf(k, idx) == ticks[k].work[idx + 1].tankId

\* worker w of tick k is inside pollDevice or about to call it
polling(k, w) == ticks[k].wk[w].pc \in {"jitter", "reading"}

\* C33: within one tick every Live Cache key is written by at most one
\* worker: two workers of a tick never poll devices of the same tankId at
\* the same time, and the frames a tick passes to updateLiveCache under one
\* key come from one work item.
C33_OneWriterPerKey ==
  \A k \in 1..nTicks :
    /\ \A w1, w2 \in 1..Len(ticks[k].wk) :
         (w1 # w2 /\ polling(k, w1) /\ polling(k, w2))
           => keyOf(k, ticks[k].wk[w1].idx) # keyOf(k, ticks[k].wk[w2].idx)
    /\ \A f1, f2 \in cacheWrites :
         (f1.tick = k /\ f2.tick = k
          /\ keyOf(k, f1.idx) = keyOf(k, f2.idx)) => f1.idx = f2.idx

\* two workers of a tick have each stored a frame
C33_Witness ==
  \E f1, f2 \in cacheWrites : f1.tick = f2.tick /\ f1.idx # f2.idx

\* ------------------------------------------------------------------------
\* Events and the dispatches that carry them
\* ------------------------------------------------------------------------

\* the events (by number) still in the pending batch
pendingNow == {pendingEvents[x].n : x \in 1..Len(pendingEvents)}

\* the dispatch attempts whose message contains event n
dispatchesOf(n) == {j \in 1..Len(dispatches) : n \in dispatches[j].events}

\* C34: every event appended to the pending batch is part of the message of
\* exactly one dispatch attempt: no event is in two messages, and an event
\* that has left the batch is in one.
C34_EventInOneDispatch ==
  \A n \in 1..evtSeq :
    /\ Cardinality(dispatchesOf(n)) <= 1
    /\ n \notin pendingNow => Cardinality(dispatchesOf(n)) = 1

\* C34, the clearing step: when the dispatch of a flush settles, the events
\* the flush clears are events of its own message.
C34_ClearsOnlySent ==
  [][\A k \in 1..nTicks :
       (ticks[k].pc = "flushing" /\ ticks'[k].pc = "done")
         => pendingNow \ {pendingEvents'[x].n : x \in 1..Len(pendingEvents')}
              \subseteq dispatches[ticks[k].d].events]_vars

\* C34 with one tick at a time: a flush that settles while no other tick is
\* in progress clears only events of its own message, and up to then every
\* event is in at most one message.
C34_ClearsOnlySentAlone ==
  [][\A k \in 1..nTicks :
       (/\ ticks[k].pc = "flushing" /\ ticks'[k].pc = "done"
        /\ \A j \in 1..nTicks \ {k} : ticks[j].pc \in {"idle", "done"})
         => pendingNow \subseteq dispatches[ticks[k].d].events]_vars

\* a dispatch carrying an event has settled
C34_Witness ==
  \E j \in 1..Len(dispatches) :
    dispatches[j].events # {} /\ dispatches[j].result = "sent"

\* ------------------------------------------------------------------------
\* Modbus transport: the idle check and the close event after end()
\* modbus.timers: the sockets whose setTimeout chain of maybeCloseIdle
\* (modbusBlocks.js:113, 128) is still running.
\* ------------------------------------------------------------------------

\* modbusBlocks.js:118-130: the idle timer started with socket s fires.  It
\* looks the key up: with no entry the chain ends; an entry not used for
\* idleCloseMs (no request is under way) is marked closing, its socket is
\* ended and the key deleted; otherwise the timer is set again (no change).
IdleCheck(s) ==
  /\ s \in modbus.timers
  /\ IF modbus.pool = 0
       THEN modbus' = [modbus EXCEPT !.timers = @ \ {s}]
       ELSE /\ modbus.req.pc \in {"idle", "done", "failed"}
            /\ modbus' =
                 [modbus EXCEPT !.sockets[modbus.pool] =
                                  [state |-> "ending", closing |-> TRUE],
                                !.pool = 0,
                                !.timers = @ \ {s}]
  /\ UNCHANGED notModbus

\* modbusBlocks.js:101-104: the close event of a socket that was ended by
\* maybeCloseIdle, once the peer has closed its side
EndedClose(s) ==
  /\ s \in 1..Len(modbus.sockets)
  /\ modbus.sockets[s].state = "ending"
  /\ modbus' = poolDelete(modbus, s)
  /\ UNCHANGED notModbus

\* the transport with idle checks
IdleNext ==
  \/ ReadBlocks
  \/ \E o \in ConnectOutcomes : ConnectDone(o)
  \/ \E o \in ReadOutcomes \cup {"offline"} : ReadSettles(o)
  \/ BackoffDone
  \/ \E s \in 1..MaxRequests : SocketClose(s)
  \/ \E s \in 1..MaxRequests : IdleCheck(s)
  \/ \E s \in 1..MaxRequests : EndedClose(s)

SpecIdle == PollerInit /\ [][IdleNext]_vars

\* the step is an event of socket s: its close or error event, a connection
\* reset reported to the request that reads on it, or its idle check
eventOf(s) ==
  \/ SocketClose(s)
  \/ EndedClose(s)
  \/ IdleCheck(s)
  \/ modbus.req.client = s /\ ReadSettles("ECONNRESET")

\* C35: a close or error event or an idle check of a socket that is not the
\* one registered under the key leaves the pool entry of the registered
\* socket in place and its socket as it is.
C35_OldSocketEvents ==
  [][\A s \in 1..Len(modbus.sockets) :
       (modbus.pool # 0 /\ modbus.pool # s /\ eventOf(s))
         => /\ modbus'.pool = modbus.pool
            /\ modbus'.sockets[modbus.pool] = modbus.sockets[modbus.pool]]_vars

\* C35, the close and error events alone
C35_OldCloseEvents ==
  [][\A s \in 1..Len(modbus.sockets) :
       (/\ modbus.pool # 0 /\ modbus.pool # s
        /\ (SocketClose(s) \/ EndedClose(s)
            \/ (modbus.req.client = s /\ ReadSettles("ECONNRESET"))))
         => modbus'.pool = modbus.pool]_vars

\* C35, the idle check alone
C35_OldIdleCheck ==
  [][\A s \in 1..Len(modbus.sockets) :
       (modbus.pool # 0 /\ modbus.pool # s /\ IdleCheck(s))
         => /\ modbus'.pool = modbus.pool
            /\ modbus'.sockets[modbus.pool].state = "open"]_vars

\* ------------------------------------------------------------------------
\* GET /api/live: the seeding of the utility devices
\* ------------------------------------------------------------------------

\* unnamed/part_000:64: ts_utc of a seeded entry
null == -2000000

\* the tankIds of backend/config/utilityConfig.json with their addresses
utilCfg ==
  {[tankId |-> Devices[k].tankId, ip |-> Devices[k].ip] :
     k \in {j \in 1..Len(Devices) : Devices[j].family = "util"}}

\* a seeding that writes its entry whether or not the key is present
ensureUtilDevicesInLiveCache_Overwrite(cache) ==
  [t \in Tanks |->
     IF \E u \in utilCfg : u.tankId = t
       THEN [present |-> TRUE, family |-> "util",
             ip |-> (CHOOSE u \in utilCfg : u.tankId = t).ip,
             ts_utc |-> null, qc |-> "fail", s |-> NoValues]
       ELSE cache[t]]

\* unnamed/part_000:53-72
ensureUtilDevicesInLiveCache(cache) ==
  [t \in Tanks |->
     IF (\E u \in utilCfg : u.tankId = t) /\ ~cache[t].present
       THEN [present |-> TRUE, family |-> "util",
             ip |-> (CHOOSE u \in utilCfg : u.tankId = t).ip,
             ts_utc |-> null, qc |-> "fail", s |-> NoValues]
       ELSE cache[t]]

\* unnamed/part_000:369-380: a GET /api/live request is handled
LiveRequest ==
  /\ liveCache' = ensureUtilDevicesInLiveCache(liveCache)
  /\ liveCache' # liveCache
  /\ UNCHANGED <<families, pollTimer, nTicks, ticks, lastReload, cacheWrites,
                 mqttOut, alarmFed, dispatches, discarded>>
  /\ UNCHANGED alarmVars
  /\ UNCHANGED <<logVars, down, setCalls, modbus, codec, cmd>>

LiveNext == PollNext \/ LiveRequest

\* the poller with GET /api/live requests
SpecLive == PollerInit /\ [][LiveNext]_vars

\* the entry of tank t holds a polled frame
polledEntry(cache, t) == cache[t].present /\ cache[t].ts_utc # null

\* C36: once the Live Cache entry of a tankId holds a polled frame, every
\* step leaves it holding a polled frame whose ts_utc is not smaller; and
\* the seeding of a GET /api/live request changes no entry that exists.
C36_TsMonotonic ==
  [][/\ \A t \in Tanks :
          polledEntry(liveCache, t)
            => /\ polledEntry(liveCache', t)
               /\ liveCache'[t].ts_utc >= liveCache[t].ts_utc
     /\ \A t \in Tanks :
          (liveCache[t].present /\ cacheWrites' = cacheWrites)
            => liveCache'[t] = liveCache[t]]_vars

\* the utility device is seeded and not yet polled, while t1 holds the
\* frame of the second tick stored over that of the first
C36_Witness ==
  /\ liveCache["t2"].present /\ liveCache["t2"].ts_utc = null
  /\ liveCache["t1"].ts_utc > T0
  /\ \E f1, f2 \in cacheWrites :
       f1.tick = 1 /\ f2.tick = 2 /\ f1.idx = 0 /\ f2.idx = 0

\* ------------------------------------------------------------------------
\* Failed and overlapping setAlarmThresholds calls
\* (setCalls[i].before: config and rule bounds when call i was made, and
\* whether the write of an earlier call was still under way)
\* ------------------------------------------------------------------------

\* call i returned an error and no later call was accepted
lastWord(i) ==
  /\ setCalls[i].status \in {"rejected", "failed"}
  /\ \A j \in (i + 1)..Len(setCalls) : setCalls[j].status = "rejected"

\* C37: when setAlarmThresholds returns an error, for a payload that fails
\* validation or a settings file that cannot be written, the in-memory
\* config and the rule bounds are those from before the call.
C37_FailedCallChangesNothing ==
  \A i \in 1..Len(setCalls) :
    lastWord(i) => /\ currentConfig = setCalls[i].before.config
                   /\ ruleBounds = setCalls[i].before.bounds
                   /\ getAlarmThresholds = setCalls[i].before.config

\* C37 for validation errors: a rejected call leaves config and rule bounds
\* as they were when it was made.
C37_RejectedChangesNothing ==
  \A i \in 1..Len(setCalls) :
    (setCalls[i].status = "rejected"
     /\ \A j \in (i + 1)..Len(setCalls) : setCalls[j].status = "rejected")
      => /\ currentConfig = setCalls[i].before.config
         /\ ruleBounds = setCalls[i].before.bounds

\* every call made so far was accepted and its write has succeeded
allWritten ==
  /\ Len(setCalls) >= 1
  /\ \A i \in 1..Len(setCalls) : setCalls[i].status = "ok"

\* C38: once all setAlarmThresholds calls, overlapping or not, have
\* completed successfully, the settings file holds the in-memory config.
C38_FileMatchesMemory ==
  allWritten => /\ settingsFile.exists
                /\ settingsFile.json = currentConfig

\* C38 for calls that do not overlap: each call is made after the write of
\* the one before has settled.
C38_FileMatchesMemoryInTurn ==
  (allWritten /\ \A i \in 1..Len(setCalls) : ~setCalls[i].before.writing)
    => /\ settingsFile.exists
       /\ settingsFile.json = currentConfig

\* two calls with different configs were made in turn and both have been
\* written
C38_WitnessInTurn ==
  /\ allWritten /\ Len(setCalls) = 2
  /\ ~setCalls[2].before.writing
  /\ setCalls[1].config # setCalls[2].config

\* ------------------------------------------------------------------------
\* Frames on their way from the publisher to the Log Writer
\* ------------------------------------------------------------------------

\* backend/src/mqttPublisher.js:30-45, unnamed/part_000:737, 764:
\* publishTelemetry is called by pollDevice for the ok frame and for the
\* failure frame alike, and hands the payload to logTelemetry
PublishTelemetry(k, qc, d, stop) == logTelemetry(k, qc, d, stop)

PublishNext ==
  \/ \E k \in 1..Len(Devices), qc \in {"ok", "fail"}, d \in LogDeltas,
        stop \in 0..1 : PublishTelemetry(k, qc, d, stop)
  \/ \E stop \in 0..MaxLogCalls : Drain(stop)

\* the Log Writer fed with ok and failure frames
SpecPublish == PollerInit /\ [][PublishNext]_vars

\* the calls before call j of the same key whose frame was ok and accepted
okRowsBefore(j) ==
  {i \in 1..(j - 1) : /\ logCalls[i].accepted /\ logCalls[i].qc = "ok"
                      /\ callKey(logCalls[i]) = callKey(logCalls[j])}

\* C39: a failure frame produces no log row and leaves the rate-limit
\* timestamp of its key alone, so an ok frame is dropped only when an ok
\* row of its key was logged less than MIN_INTERVAL_MS before it.
C39_FailFramesNotLogged ==
  \A j \in 1..Len(logCalls) :
    /\ logCalls[j].qc = "fail"
         => /\ ~logCalls[j].accepted
            /\ lastWrite[callKey(logCalls[j])] # logCalls[j].ts
    /\ (logCalls[j].qc = "ok" /\ ~logCalls[j].accepted)
         => \E i \in okRowsBefore(j) :
              logCalls[j].ts - logCalls[i].ts < MIN_INTERVAL_MS

\* C39, what the limiter does: a frame, ok or not, is dropped exactly when
\* a row of its key was logged less than MIN_INTERVAL_MS before it.
C39_AnyFrameCounts ==
  \A j \in 1..Len(logCalls) :
    logCalls[j].accepted
      <=> logCalls[j].ts - LastAccepted(j, callKey(logCalls[j]))
            >= MIN_INTERVAL_MS

\* ------------------------------------------------------------------------
\* Command subscriber: the message handler (unnamed/part_002:57-133)
\* cmd.msgs[m]: message m and its handler: pc is "returned" (line 62),
\* "writing" (suspended in writeRegisters of op i), "republishing" (the
\* result ack is out), "done" or "threw" (the handler's promise rejected).
\* ------------------------------------------------------------------------

\* unnamed/part_002:89-108 from op i on.  C = [cmd, lastSet]: planWrite is
\* called for each op; a throw is caught and recorded, a plan suspends the
\* handler in writeRegisters; after the last op the result ack is published.
RECURSIVE runOps(_, _, _, _)
runOps(C, m, i, map) ==
  LET h == C.cmd.msgs[m] IN
  IF i > Len(h.body.ops)
    THEN [C EXCEPT !.cmd.acks = publishAck(@, m, h.topic, "none", h.results),
                   !.cmd.msgs[m].pc = "republishing",
                   !.cmd.msgs[m].i = i]
  ELSE
  LET op == h.body.ops[i]
      plan == planWrite(map, op.point, op.value, TRUE, C.lastSet[op.point])
      C1 == [C EXCEPT !.lastSet[op.point] = plan.lastSet]
  IN IF plan.outcome = "throw"
       THEN runOps([C1 EXCEPT !.cmd.msgs[m].results =
                       Append(@, [point |-> op.point, ok |-> FALSE,
                                  error |-> plan.error,
                                  value_applied |-> undefined])],
                   m, i + 1, map)
       ELSE [C1 EXCEPT !.cmd.msgs[m].pc = "writing",
                       !.cmd.msgs[m].i = i,
                       !.cmd.writes = Append(@, [m |-> m, point |-> op.point,
                                                 fc |-> plan.fc,
                                                 start |-> plan.start,
                                                 value |-> plan.value])]

\* unnamed/part_002:57-100: a message arrives on topic parts with payload
\* body, d ms after the previous one; the handler runs to its first await
Message(parts, body, d) ==
  /\ Len(cmd.msgs) < MaxMsgs
  /\ now' = now + d
  /\ LET m == Len(cmd.msgs) + 1
         key == deviceKeyOf(parts)
         tb == tokenBucketAllow(cmd.opBuckets[key], now', maxOpsPerMinute)
         h0 == [topic |-> parts, body |-> body, pc |-> "done", i |-> 0,
                results |-> << >>]
         c0 == [cmd EXCEPT !.msgs = Append(@, h0)]
         c1 == [c0 EXCEPT !.opBuckets[key] = tb.bucket]
         R == IF Len(parts) < 6
                THEN [cmd |-> [c0 EXCEPT !.msgs[m].pc = "returned"],
                      lastSet |-> codec.lastSet]
              ELSE IF body.json = "bad"
                THEN [cmd |-> [c0 EXCEPT !.acks =
                                 publishAck(@, m, parts, "bad_json", << >>)],
                      lastSet |-> codec.lastSet]
              ELSE IF ~validTtl(body, now')
                THEN [cmd |-> [c0 EXCEPT !.acks =
                                 publishAck(@, m, parts, "expired", << >>)],
                      lastSet |-> codec.lastSet]
              ELSE IF ~tb.allow
                THEN [cmd |-> [c1 EXCEPT !.acks =
                                 publishAck(@, m, parts, "rate_limited", << >>)],
                      lastSet |-> codec.lastSet]
              ELSE IF parts[3] \notin tankMap
                THEN [cmd |-> [c1 EXCEPT !.acks =
                                 publishAck(@, m, parts, "unknown_tank", << >>)],
                      lastSet |-> codec.lastSet]
              ELSE IF body.json = "null"
                THEN [cmd |-> [c1 EXCEPT !.msgs[m].pc = "threw"],
                      lastSet |-> codec.lastSet]
              ELSE runOps([cmd |-> c1, lastSet |-> codec.lastSet], m, 1,
                          codec.map)
     IN /\ cmd' = R.cmd
        /\ codec' = [codec EXCEPT !.lastSet = R.lastSet]
  /\ UNCHANGED <<currentConfig, ruleBounds, settingsFile, connectivityState,
                 alarmState, pendingEvents, evtSeq, frameLog, eventLog>>
  /\ UNCHANGED <<pollVars, logVars, down, setCalls, modbus>>

\* unnamed/part_002:95-100: writeRegisters of op i of message m resolves
\* (ok) or rejects after its retries; the loop goes on with the next op
WriteSettled(m, ok) ==
  /\ m \in 1..Len(cmd.msgs)
  /\ cmd.msgs[m].pc = "writing"
  /\ LET h == cmd.msgs[m]
         op == h.body.ops[h.i]
         res == IF ok THEN [point |-> op.point, ok |-> TRUE, error |-> "none",
                            value_applied |-> op.value]
                ELSE [point |-> op.point, ok |-> FALSE,
                      error |-> "request timeout",
                      value_applied |-> undefined]
         R == runOps([cmd |-> [cmd EXCEPT !.msgs[m].results = Append(@, res)],
                      lastSet |-> codec.lastSet], m, h.i + 1, codec.map)
     IN /\ cmd' = R.cmd
        /\ codec' = [codec EXCEPT !.lastSet = R.lastSet]
  /\ UNCHANGED <<pollVars, alarmVars, logVars, down, setCalls, modbus>>

\* unnamed/part_002:110-132: the read-back and republish after the result
\* ack ends, with or without an error (caught at line 130)
RepublishDone(m) ==
  /\ m \in 1..Len(cmd.msgs)
  /\ cmd.msgs[m].pc = "republishing"
  /\ cmd' = [cmd EXCEPT !.msgs[m].pc = "done"]
  /\ UNCHANGED <<pollVars, alarmVars, logVars, down, setCalls, modbus, codec>>

CmdNext ==
  \/ \E parts \in CmdTopics, body \in CmdBodies, d \in {0, 60000} :
       Message(parts, body, d)
  \/ \E m \in 1..MaxMsgs, ok \in BOOLEAN : WriteSettled(m, ok)
  \/ \E m \in 1..MaxMsgs : RepublishDone(m)

\* the command subscriber alone
SpecCmd == PollerInit /\ [][CmdNext]_vars

acksOf(m) == SelectSeq(cmd.acks, LAMBDA a : a.m = m)
writesOf(m) == SelectSeq(cmd.writes, LAMBDA w : w.m = m)
ended(m) == cmd.msgs[m].pc \in {"returned", "republishing", "done", "threw"}
errorAcks == {"bad_json", "expired", "rate_limited", "unknown_tank"}

\* the ack of message m is as the claim describes it: on .../cmd/ack; an
\* error ack with no register write, or a result ack with one result per op
\* in the order of the request, every op that has a plan having been written
ackAsClaimed(m) ==
  LET h == cmd.msgs[m]
      a == acksOf(m)[1]
  IN /\ a.topic = SubSeq(h.topic, 1, Len(h.topic) - 1) \o <<"cmd", "ack">>
     /\ a.error \in errorAcks => (a.results = << >> /\ writesOf(m) = << >>)
     /\ a.error \notin errorAcks =>
          /\ a.error = "none"
          /\ Len(a.results) = Len(h.body.ops)
          /\ \A i \in 1..Len(h.body.ops) :
               a.results[i].point = h.body.ops[i].point
          /\ Len(writesOf(m))
               = Cardinality({i \in 1..Len(h.body.ops) :
                                h.body.ops[i].point = "sp"})

\* C40: every message received on a cmd topic gets exactly one ack: no
\* message has more than one, and a message whose handler has ended has
\* one, of the form the claim describes.
C40_OneAckPerMessage ==
  \A m \in 1..Len(cmd.msgs) :
    /\ Len(acksOf(m)) <= 1
    /\ ended(m) => (Len(acksOf(m)) = 1 /\ ackAsClaimed(m))

\* C40 for topics of six or more levels and payloads other than null
C40_AckOnLongTopics ==
  \A m \in 1..Len(cmd.msgs) :
    /\ Len(acksOf(m)) <= 1
    /\ (ended(m) /\ Len(cmd.msgs[m].topic) >= 6
        /\ cmd.msgs[m].body.json # "null")
         => (Len(acksOf(m)) = 1 /\ ackAsClaimed(m))

\* a command of two ops was acked with the first op failed and the second
\* written
C40_WitnessLong ==
  \E m \in 1..Len(cmd.msgs) :
    /\ Len(acksOf(m)) = 1
    /\ Len(acksOf(m)[1].results) = 2
    /\ ~acksOf(m)[1].results[1].ok
    /\ acksOf(m)[1].results[2].ok

====
